---- MODULE Spec2Model ----
(***************************************************************************)
(* A model of kubectl-kanvas-snapshot: the manifest collector, the design  *)
(* submitter (the lenient variant of cmd/kanvas-snapshot/cmd.go and the    *)
(* strict variant of unnamed/part_002), the snapshot trigger, the direct   *)
(* download, and the process that runs them from main to its exit.         *)
(*                                                                         *)
(* Go strings are sequences of one-character strings, so that HasPrefix,   *)
(* Contains, HasSuffix, ToLower and ReplaceAll are computed, not assumed.  *)
(***************************************************************************)
EXTENDS Naturals, Integers, Sequences, FiniteSets, TLC

VARIABLES
    now,                \* the wall clock, in seconds after ClockBase
    pc,                 \* "ready" before the operation runs, then "returned" or "panicked"
    call,               \* the operation invoked, its arguments and what the world answered
    ret,                \* what the operation returned
    net,                \* the HTTP requests issued so far, in order
    logs,               \* the messages written to Log so far, in order
    fs,                 \* the directory tree under the manifest path
    ProviderToken,      \* cmd.go:33
    MesheryAPIBaseURL,  \* cmd.go:34
    SnapshotEndpoint,   \* Config.Meshery.SnapshotEndpoint ("" when Config is nil or unset)
    repoOwner,          \* cmd.go:52
    repoName,           \* cmd.go:53
    workflowID,         \* cmd.go:55
    world,              \* what the process is started in: environment, .env file,
                        \* configuration file, command line, the output path
    mainVars,           \* the package variables of main.go (part_003:23-32)
    flags,              \* the other package variables of cmd.go (cmd.go:35-36, 44-54)
    run,                \* the local variables of kanvasSnapshotRunE
    steps,              \* kanvasSnapshotRunE and the operations it has invoked, in order
    exitCode,           \* the exit code of the process, Running until it exits
    outFile,            \* what has been written to the output path
    handles             \* the response bodies and files opened and closed so far, in order

vars == <<now, pc, call, ret, net, logs, fs, ProviderToken, MesheryAPIBaseURL,
          SnapshotEndpoint, repoOwner, repoName, workflowID,
          world, mainVars, flags, run, steps, exitCode, outFile, handles>>

process == <<world, mainVars, flags, run, steps, exitCode>>

globals == <<ProviderToken, MesheryAPIBaseURL, SnapshotEndpoint, repoOwner, repoName, workflowID>>

(***************************************************************************)
(* Bounds of the model.                                                    *)
(***************************************************************************)
\* The clock runs from second 0 to second MaxClock of the minute ClockBase.
MaxClock == 2

(***************************************************************************)
(* strings                                                                 *)
(***************************************************************************)
\* strings.HasPrefix
HasPrefix(s, prefix) ==
    /\ Len(s) >= Len(prefix)
    /\ SubSeq(s, 1, Len(prefix)) = prefix

\* strings.HasSuffix
HasSuffix(s, suffix) ==
    /\ Len(s) >= Len(suffix)
    /\ SubSeq(s, Len(s) - Len(suffix) + 1, Len(s)) = suffix

\* strings.Contains
Contains(s, substr) ==
    \E i \in 1..(Len(s) + 1) :
        /\ i + Len(substr) - 1 <= Len(s)
        /\ SubSeq(s, i, i + Len(substr) - 1) = substr

\* strings.ReplaceAll(s, old, new) for a one-character old
ReplaceAll(s, old, new) ==
    [i \in 1..Len(s) |-> IF s[i] = old THEN new ELSE s[i]]

\* a byte below 0x20 or 0x7f: net/url refuses a URL holding one, so
\* http.NewRequest returns an error
IsCtl(c) == c \in {"\t", "\n", "\r"}

HasCtl(s) == \E i \in 1..Len(s) : IsCtl(s[i])

OfflinePrefix == <<"o","f","f","l","i","n","e","-","m","o","d","e","-">>

(***************************************************************************)
(* time.Now().Format("20060102150405"): fourteen digits, to the second.    *)
(***************************************************************************)
Digit(n) == CASE n = 0 -> "0" [] n = 1 -> "1" [] n = 2 -> "2" [] n = 3 -> "3"
              [] n = 4 -> "4" [] n = 5 -> "5" [] n = 6 -> "6" [] n = 7 -> "7"
              [] n = 8 -> "8" [] n = 9 -> "9"

\* 2026-11-02 15:04, the minute the modelled clock runs in
ClockBase == <<"2","0","2","6","1","1","0","2","1","5","0","4">>

FormatTimestamp(t) == ClockBase \o <<Digit((t \div 10) % 6), Digit(t % 10)>>

\* the identifier built from the name as given, spaces kept
generateDummyID_KeepsSpaces(name, t) ==
    LET timestamp == FormatTimestamp(t)
        safeName  == IF name = <<>> THEN <<"d","e","s","i","g","n">> ELSE name
    IN  OfflinePrefix \o safeName \o <<"-">> \o timestamp

\* generateDummyID
generateDummyID(name, t) ==
    LET timestamp == FormatTimestamp(t)
        replaced  == ReplaceAll(name, " ", "-")
        safeName  == IF replaced = <<>> THEN <<"d","e","s","i","g","n">> ELSE replaced
    IN  OfflinePrefix \o safeName \o <<"-">> \o timestamp

(***************************************************************************)
(* HTTP                                                                    *)
(***************************************************************************)
StatusOK == 200
StatusCreated == 201
StatusNoContent == 204

NoError == "nil"

\* What the world answers to client.Do and to the read of the body that
\* follows: "do" is whether client.Do returned an error (no connection, or
\* the client's 30 s Timeout before the headers came), "read" whether
\* io.ReadAll did (the same Timeout covers the body, and the peer may reset),
\* "cause" why.
Response(do, read, cause, status, body) ==
    [do |-> do, read |-> read, cause |-> cause, status |-> status, body |-> body]

(***************************************************************************)
(* GenerateSnapshot, cmd.go                                                *)
(***************************************************************************)
DefaultRepoOwner == <<"l","a","y","e","r","5","l","a","b","s">>
DefaultRepoName == <<"k","u","b","e","c","t","l","-","k","a","n","v","a","s","-","s","n","a","p","s","h","o","t">>
DefaultWorkflowID == <<"k","a","n","v","a","s",".","y","a","m","l">>
DispatchRef == <<"m","a","s","t","e","r">>

AssetURLPrefix == <<"h","t","t","p","s",":","/","/","r","a","w",".","g","i","t","h","u","b","u","s","e","r","c","o","n","t","e","n","t",".","c","o","m","/","l","a","y","e","r","5","l","a","b","s","/","m","e","s","h","e","r","y","-","e","x","t","e","n","s","i","o","n","s","-","p","a","c","k","a","g","e","s","/","m","a","s","t","e","r","/","a","c","t","i","o","n","-","a","s","s","e","t","s","/","k","u","b","e","c","t","l","-","p","l","u","g","i","n","-","a","s","s","e","t","s","/">>

\* the default location pointing at the assets directory, not at the file
DefaultAssetLocation_Directory(designID) == AssetURLPrefix

DefaultAssetLocation(designID) == AssetURLPrefix \o designID \o <<".","p","n","g">>

DispatchURL(owner, repo, workflow) ==
    <<"h","t","t","p","s",":","/","/","a","p","i",".","g","i","t","h","u","b",".","c","o","m","/","r","e","p","o","s","/">>
    \o owner \o <<"/">> \o repo
    \o <<"/","a","c","t","i","o","n","s","/","w","o","r","k","f","l","o","w","s","/">>
    \o workflow \o <<"/","d","i","s","p","a","t","c","h","e","s">>

\* the dispatch taken as accepted only on 204 No Content
DispatchRejected_UnlessNoContent(status) == status # StatusNoContent

\* cmd.go:426, part_002:388
DispatchRejected(status) == status # StatusNoContent /\ status # StatusOK

\* The part of GenerateSnapshot after its two no-op checks: defaults, the
\* dispatch POST, the check of the response status.
DispatchWorkflow(designID, assetLocation, token, owner, repo, workflow, resp) ==
    LET repoOwnerValue  == IF owner = <<>> THEN DefaultRepoOwner ELSE owner
        repoNameValue   == IF repo = <<>> THEN DefaultRepoName ELSE repo
        workflowIDValue == IF workflow = <<>> THEN DefaultWorkflowID ELSE workflow
        location        == IF assetLocation = <<>> THEN DefaultAssetLocation(designID)
                                                   ELSE assetLocation
        apiURL          == DispatchURL(repoOwnerValue, repoNameValue, workflowIDValue)
        req == [method |-> "POST", url |-> apiURL,
                auth |-> <<"t","o","k","e","n"," ">> \o token,
                cookie |-> <<>>,
                body |-> [ref |-> DispatchRef,
                          inputs |-> [designID |-> designID, assetLocation |-> location]]]
        pre == <<"View your design in Meshery">>
               \o (IF owner = <<>> THEN <<"No repository owner specified, using default">> ELSE <<>>)
               \o (IF repo = <<>> THEN <<"No repository name specified, using default">> ELSE <<>>)
               \o (IF workflow = <<>> THEN <<"No workflow ID specified, using default">> ELSE <<>>)
               \o (IF assetLocation = <<>> THEN <<"Using default asset location">> ELSE <<>>)
               \o <<"Triggering GitHub workflow to generate snapshot...">>
    IN  IF HasCtl(apiURL)
        THEN [kind |-> "return", err |-> "ErrGeneratingSnapshot", sent |-> <<>>,
              logs |-> pre \o <<"Failed to create request">>]
        ELSE IF resp.do = "error"
        THEN [kind |-> "return", err |-> "ErrGeneratingSnapshot", sent |-> <<req>>,
              logs |-> pre \o <<"Failed to trigger workflow">>]
        ELSE IF DispatchRejected(resp.status)
        THEN [kind |-> "return", err |-> "ErrGeneratingSnapshot", sent |-> <<req>>,
              logs |-> pre \o <<"Workflow trigger failed with status">>]
        ELSE [kind |-> "return", err |-> NoError, sent |-> <<req>>,
              logs |-> pre \o <<"Workflow triggered successfully!">>]

\* the offline check comparing for equality instead of testing the prefix
IsOfflineID_Equal(designID) == designID = OfflinePrefix

\* only the identifiers made for the empty name taken as offline
IsOfflineID_DesignOnly(designID) ==
    HasPrefix(designID, OfflinePrefix \o <<"d","e","s","i","g","n","-">>)

\* strings.HasPrefix(designID, "offline-mode-"), cmd.go:330
IsOfflineID(designID) == HasPrefix(designID, OfflinePrefix)

\* the token check lost: the dispatch is attempted with an empty token
NoToken_Never(token) == FALSE

\* token == "", cmd.go:343 and part_002:305
NoToken(token) == token = <<>>

\* GenerateSnapshot of cmd.go (the lenient variant)
GenerateSnapshot(designID, assetLocation, token, owner, repo, workflow, resp) ==
    IF IsOfflineID(designID)
    THEN [kind |-> "return", err |-> NoError, sent |-> <<>>,
          logs |-> <<"Using offline mode - cannot trigger workflow for an offline design">>]
    ELSE IF NoToken(token)
    THEN [kind |-> "return", err |-> NoError, sent |-> <<>>,
          logs |-> <<"GITHUB_TOKEN environment variable not set. Snapshot generation will be skipped.">>]
    ELSE DispatchWorkflow(designID, assetLocation, token, owner, repo, workflow, resp)

\* GenerateSnapshot of part_002 (the strict variant): no offline check
GenerateSnapshotStrict(designID, assetLocation, token, owner, repo, workflow, resp) ==
    IF NoToken(token)
    THEN [kind |-> "return", err |-> NoError, sent |-> <<>>,
          logs |-> <<"GITHUB_TOKEN environment variable not set. Snapshot generation will be skipped.">>]
    ELSE DispatchWorkflow(designID, assetLocation, token, owner, repo, workflow, resp)

(***************************************************************************)
(* JSON.  A response body is a JSON document or text that is not JSON.     *)
(* A value is [t, s, kv]: t its kind, s the text of a string (or of a      *)
(* number, null, or of a body that is no JSON), kv the members of an       *)
(* object in document order ([k, v]) or the elements of an array ([v]).    *)
(***************************************************************************)
JStr(s) == [t |-> "string", s |-> s, kv |-> <<>>]
JNum == [t |-> "number", s |-> <<"4","2">>, kv |-> <<>>]
JNull == [t |-> "null", s |-> <<"n","u","l","l">>, kv |-> <<>>]
JObj(members) == [t |-> "object", s |-> <<>>, kv |-> members]
JArr(elems) == [t |-> "array", s |-> <<>>, kv |-> elems]
NotJSON(text) == [t |-> "invalid", s |-> text, kv |-> <<>>]
Member(k, v) == [k |-> k, v |-> v]
Elem(v) == [k |-> <<>>, v |-> v]
\* what indexing a Go map yields for an absent key: the nil interface
Missing == [t |-> "missing", s |-> <<>>, kv |-> <<>>]

RECURSIVE Render(_)
RECURSIVE RenderMembers(_, _)
RECURSIVE RenderElems(_, _)
\* the bytes of the body, which string(body) is searched in
Render(v) ==
    CASE v.t = "object" -> <<"{">> \o RenderMembers(v.kv, 1) \o <<"}">>
      [] v.t = "array"  -> <<"[">> \o RenderElems(v.kv, 1) \o <<"]">>
      [] v.t = "string" -> <<"\"">> \o v.s \o <<"\"">>
      [] OTHER          -> v.s

RenderMembers(kv, i) ==
    IF i > Len(kv) THEN <<>>
    ELSE (IF i > 1 THEN <<",">> ELSE <<>>)
         \o <<"\"">> \o kv[i].k \o <<"\"", ":">> \o Render(kv[i].v)
         \o RenderMembers(kv, i + 1)

RenderElems(kv, i) ==
    IF i > Len(kv) THEN <<>>
    ELSE (IF i > 1 THEN <<",">> ELSE <<>>) \o Render(kv[i].v) \o RenderElems(kv, i + 1)

\* json.Unmarshal(body, &responseData) with responseData a map[string]interface{}:
\* an object decodes, null decodes (the map stays nil); anything else is an error
UnmarshalsAsObject(v) == v.t \in {"object", "null"}

\* json.Unmarshal(body, &responseArray) with responseArray a []interface{}
UnmarshalsAsArray(v) == v.t \in {"array", "null"}

\* m[key] on the decoded map: the last member of that name wins, an absent
\* key (and any key of a nil map) yields nil
Lookup(v, key) ==
    LET hits == {i \in 1..Len(v.kv) : v.kv[i].k = key}
    IN  IF v.t # "object" \/ hits = {} THEN Missing
        ELSE v.kv[CHOOSE i \in hits : \A j \in hits : j <= i].v

KeyID == <<"i","d">>
KeyPatternFile == <<"p","a","t","t","e","r","n","_","f","i","l","e">>
KeyPatternID == <<"p","a","t","t","e","r","n","_","i","d">>

\* x.(string) in its two-value form: ok iff x holds a string
IsString(v) == v.t = "string"

\* x.(map[string]interface{}) in its one-value form: panics unless x holds a map
AssertsAsMap(v) == v.t = "object"

\* the array searched for the first element that carries a string "id"
ArrayDesignID_AnyElement(v) ==
    LET hits == {i \in 1..Len(v.kv) :
                    v.kv[i].v.t = "object" /\ IsString(Lookup(v.kv[i].v, KeyID))}
    IN  IF hits = {} THEN <<>>
        ELSE Lookup(v.kv[CHOOSE i \in hits : \A j \in hits : i <= j].v, KeyID).s

\* the first element of the decoded array, its "id" if it is an object
\* (cmd.go:271-279, part_002:261-269)
ArrayDesignID(v) ==
    IF Len(v.kv) > 0
    THEN LET firstItem == v.kv[1].v
         IN  IF firstItem.t = "object" /\ IsString(Lookup(firstItem, KeyID))
             THEN Lookup(firstItem, KeyID).s
             ELSE <<>>
    ELSE <<>>

\* the chain with pattern_id tried before pattern_file.id
ObjectDesignID_PatternIDFirst(v) ==
    IF IsString(Lookup(v, KeyID))
    THEN [kind |-> "ok", id |-> Lookup(v, KeyID).s]
    ELSE IF IsString(Lookup(v, KeyPatternID))
    THEN [kind |-> "ok", id |-> Lookup(v, KeyPatternID).s]
    ELSE IF ~AssertsAsMap(Lookup(v, KeyPatternFile))
    THEN [kind |-> "panic", id |-> <<>>]
    ELSE IF IsString(Lookup(Lookup(v, KeyPatternFile), KeyID))
    THEN [kind |-> "ok", id |-> Lookup(Lookup(v, KeyPatternFile), KeyID).s]
    ELSE [kind |-> "ok", id |-> <<>>]

\* the if / else-if chain over the decoded object (cmd.go:282-293,
\* part_002:272-283); the pattern_file assertion is the one-value form
ObjectDesignID(v) ==
    IF IsString(Lookup(v, KeyID))
    THEN [kind |-> "ok", id |-> Lookup(v, KeyID).s]
    ELSE IF ~AssertsAsMap(Lookup(v, KeyPatternFile))
    THEN [kind |-> "panic", id |-> <<>>]
    ELSE IF IsString(Lookup(Lookup(v, KeyPatternFile), KeyID))
    THEN [kind |-> "ok", id |-> Lookup(Lookup(v, KeyPatternFile), KeyID).s]
    ELSE IF IsString(Lookup(v, KeyPatternID))
    THEN [kind |-> "ok", id |-> Lookup(v, KeyPatternID).s]
    ELSE [kind |-> "ok", id |-> <<>>]

\* cmd.go:256-294 and part_002:249-284: the object parse first, the array
\* parse only when it failed
ExtractDesignID(v) ==
    IF ~UnmarshalsAsObject(v)
    THEN IF ~UnmarshalsAsArray(v)
         THEN [kind |-> "parse_error", id |-> <<>>]
         ELSE [kind |-> "ok", id |-> ArrayDesignID(v)]
    ELSE ObjectDesignID(v)

HTMLDoctype == <<"<","!","D","O","C","T","Y","P","E"," ","h","t","m","l",">">>
HTMLTag == <<"<","h","t","m","l">>

\* the HTML check looking for the DOCTYPE alone
LooksLikeHTML_DoctypeOnly(text) == Contains(text, HTMLDoctype)

\* cmd.go:237, part_002:238
LooksLikeHTML(text) == Contains(text, HTMLDoctype) \/ Contains(text, HTMLTag)

\* the status check rejecting only the 4xx and 5xx statuses
UnexpectedStatus_ErrorsOnly(status) == status >= 400

\* cmd.go:248, part_002:244
UnexpectedStatus(status) == status # StatusOK /\ status # StatusCreated

(***************************************************************************)
(* CreateMesheryDesign                                                     *)
(***************************************************************************)
DefaultImportEndpoint == <<"/","a","p","i","/","p","a","t","t","e","r","n","/","i","m","p","o","r","t">>
SourceTypeManifest == "Kubernetes Manifest"

\* the client sends only over http and https: client.Do returns an error
\* ("unsupported protocol scheme") for any other URL, without a connection
HasHTTPScheme(url) ==
    \/ HasPrefix(url, <<"h","t","t","p",":","/","/">>)
    \/ HasPrefix(url, <<"h","t","t","p","s",":","/","/">>)

\* fmt.Sprintf("token=%s;meshery-provider=Meshery", ProviderToken)
CookieValue(token) ==
    <<"t","o","k","e","n","=">> \o token
    \o <<";","m","e","s","h","e","r","y","-","p","r","o","v","i","d","e","r","=","M","e","s","h","e","r","y">>

\* filepath.Base on slash-separated paths
Base(path) ==
    LET RECURSIVE Strip(_)
        Strip(p) == IF Len(p) > 0 /\ p[Len(p)] = "/" THEN Strip(SubSeq(p, 1, Len(p) - 1)) ELSE p
        stripped == Strip(path)
        slashes  == {i \in 1..Len(stripped) : stripped[i] = "/"}
        last     == IF slashes = {} THEN 0 ELSE CHOOSE i \in slashes : \A j \in slashes : j <= i
    IN  IF path = <<>> THEN <<".">>
        ELSE IF stripped = <<>> THEN <<"/">>
        ELSE SubSeq(stripped, last + 1, Len(stripped))

\* the request with the Cookie header set whether or not there is a token
SubmitRequest_AlwaysCookie(payload, token, baseURL, endpoint) ==
    [method |-> "POST",
     url    |-> baseURL \o (IF endpoint # <<>> THEN endpoint ELSE DefaultImportEndpoint),
     auth   |-> <<>>,
     cookie |-> CookieValue(token),
     body   |-> payload]

\* the request both variants build (cmd.go:177-204, part_002:183-209)
SubmitRequest(payload, token, baseURL, endpoint) ==
    [method |-> "POST",
     url    |-> baseURL \o (IF endpoint # <<>> THEN endpoint ELSE DefaultImportEndpoint),
     auth   |-> <<>>,
     cookie |-> IF token # <<>> THEN CookieValue(token) ELSE <<>>,
     body   |-> payload]

TokenLog(token) ==
    IF token # <<>> THEN <<"Using Meshery token for authentication">>
    ELSE <<"No Meshery token provided, authentication will likely fail">>

\* a client that sends the request a second time
Outbound_Retry(req) == IF HasHTTPScheme(req.url) THEN <<req, req>> ELSE <<>>

\* the requests that leave the process when client.Do is called with req
Outbound(req) == IF HasHTTPScheme(req.url) THEN <<req>> ELSE <<>>

\* the degradation every lenient failure path takes: a dummy identifier, no error
Degrade(name, t, req, msgs) ==
    [kind |-> "return", id |-> generateDummyID(name, t), err |-> NoError,
     sent |-> Outbound(req), logs |-> msgs]

\* a hard failure: no identifier, an error
Fail(err, sent, msgs) ==
    [kind |-> "return", id |-> <<>>, err |-> err, sent |-> sent, logs |-> msgs]

\* the Go runtime panics: the function does not return
Panic(sent, msgs) ==
    [kind |-> "panic", id |-> <<>>, err |-> "panic", sent |-> sent, logs |-> msgs]

\* what the lenient variant does with a body that was read in full (cmd.go:232-305)
ResolveResponse(name, t, req, resp, pre) ==
    LET got == ExtractDesignID(resp.body)
    IN  IF LooksLikeHTML(Render(resp.body))
        THEN Degrade(name, t, req,
                     pre \o <<"Received HTML response instead of JSON - authentication failed",
                              "Using offline mode with dummy design ID">>)
        ELSE IF UnexpectedStatus(resp.status)
        THEN Degrade(name, t, req,
                     pre \o <<"Unexpected response code", "Using offline mode with dummy design ID">>)
        ELSE IF got.kind = "parse_error"
        THEN Degrade(name, t, req,
                     pre \o <<"Failed to parse response JSON", "Using offline mode with dummy design ID">>)
        ELSE IF got.kind = "panic"
        THEN Panic(Outbound(req), pre)
        ELSE IF got.id = <<>>
        THEN Degrade(name, t, req, pre \o <<"Could not extract design ID from response">>)
        ELSE [kind |-> "return", id |-> got.id, err |-> NoError, sent |-> Outbound(req),
              logs |-> pre \o <<"Successfully created Meshery design">>]

\* CreateMesheryDesign of cmd.go (the lenient variant)
CreateMesheryDesign(manifest, name, email, token, baseURL, endpoint, resp, t) ==
    LET payload == [save |-> TRUE, manifest |-> manifest, name |-> name, email |-> email,
                    pattern_source_type |-> SourceTypeManifest]
        req == SubmitRequest(payload, token, baseURL, endpoint)
        pre == <<"Sending request to">> \o TokenLog(token)
    IN  IF HasCtl(req.url)
        THEN Fail("ErrHTTPPostRequest", <<>>, <<"Sending request to", "Failed to create new request">>)
        ELSE IF ~HasHTTPScheme(req.url) \/ resp.do = "error"
        THEN Degrade(name, t, req,
                     pre \o <<"HTTP request failed", "Using offline mode with dummy design ID">>)
        ELSE IF resp.read = "error"
        THEN Fail("ErrHTTPPostRequest", Outbound(req), pre \o <<"Failed to read response body">>)
        ELSE ResolveResponse(name, t, req, resp, pre)

\* what the strict variant does with a body that was read in full (part_002:233-292)
ResolveResponseStrict(req, resp, pre) ==
    LET got == ExtractDesignID(resp.body)
    IN  IF LooksLikeHTML(Render(resp.body))
        THEN Fail("ErrHTTPPostRequest", Outbound(req),
                  pre \o <<"Received HTML response instead of JSON - authentication failed">>)
        ELSE IF UnexpectedStatus(resp.status)
        THEN Fail("ErrHTTPPostRequest", Outbound(req), pre \o <<"Unexpected response code">>)
        ELSE IF got.kind = "parse_error"
        THEN Fail("ErrDecodingAPI", Outbound(req), pre \o <<"Failed to parse response JSON">>)
        ELSE IF got.kind = "panic"
        THEN Panic(Outbound(req), pre)
        ELSE IF got.id = <<>>
        THEN Fail("ErrDecodingAPI", Outbound(req),
                  pre \o <<"Could not extract design ID from response">>)
        ELSE [kind |-> "return", id |-> got.id, err |-> NoError, sent |-> Outbound(req),
              logs |-> pre \o <<"Successfully created Meshery design">>]

\* CreateMesheryDesign of part_002 (the strict variant).  File holds the
\* manifest base64-encoded: the encoding is kept as a tag around the text.
CreateMesheryDesignStrict(manifest, name, email, token, baseURL, endpoint, path, resp) ==
    LET payload == [name |-> name, file |-> <<"base64", manifest>>, file_name |-> Base(path),
                    email |-> email, source_type |-> SourceTypeManifest]
        req == SubmitRequest(payload, token, baseURL, endpoint)
        pre == <<"Sending request to">> \o TokenLog(token)
    IN  IF HasCtl(req.url)
        THEN Fail("ErrHTTPPostRequest", <<>>, <<"Sending request to", "Failed to create new request">>)
        ELSE IF ~HasHTTPScheme(req.url) \/ resp.do = "error"
        THEN Fail("ErrHTTPPostRequest", Outbound(req), pre \o <<"HTTP request failed">>)
        ELSE IF resp.read = "error"
        THEN Fail("ErrHTTPPostRequest", Outbound(req), pre \o <<"Failed to read response body">>)
        ELSE ResolveResponseStrict(req, resp, pre)

(***************************************************************************)
(* The manifest collector: getManifestContents and processDirectory.       *)
(* A node of the file tree is [name, kind, readable, children]: kind is    *)
(* "file" or "dir", children the entries of a directory in the order       *)
(* filepath.Walk visits them (sorted by name).  A file's content is its    *)
(* path, so that the manifests returned tell which files were read.        *)
(***************************************************************************)
File(name) == [name |-> name, kind |-> "file", readable |-> TRUE, children |-> <<>>]
UnreadableFile(name) == [name |-> name, kind |-> "file", readable |-> FALSE, children |-> <<>>]
Dir(name, children) == [name |-> name, kind |-> "dir", readable |-> TRUE, children |-> children]
UnreadableDir(name) == [name |-> name, kind |-> "dir", readable |-> FALSE, children |-> <<>>]
\* what os.Stat fails on
NoSuchPath == [name |-> <<>>, kind |-> "missing", readable |-> FALSE, children |-> <<>>]

UpperCase == <<"A","B","C","D","E","F","G","H","I","J","K","L","M",
               "N","O","P","Q","R","S","T","U","V","W","X","Y","Z">>
LowerCase == <<"a","b","c","d","e","f","g","h","i","j","k","l","m",
               "n","o","p","q","r","s","t","u","v","w","x","y","z">>

\* strings.ToLower
ToLower(s) ==
    [i \in 1..Len(s) |->
        IF \E k \in 1..26 : UpperCase[k] = s[i]
        THEN LowerCase[CHOOSE k \in 1..26 : UpperCase[k] = s[i]]
        ELSE s[i]]

\* filepath.Join(dir, name)
JoinPath(dir, name) == dir \o <<"/">> \o name

\* os.ReadFile(path) of a readable file
ContentOf(path) == path

\* cmd.go:131
IsYAMLPath(path) ==
    \/ HasSuffix(ToLower(path), <<".","y","a","m","l">>)
    \/ HasSuffix(ToLower(path), <<".","y","m","l">>)

\* cmd.go:124: a directory other than the root is skipped unless recursive
SkipsDir(path, dirPath, recursive) == path # dirPath /\ ~recursive

\* walkFn (cmd.go:117-140) called on one node with the error filepath.Walk
\* hands it; ms are the manifests collected so far
walkFn(path, node, err, dirPath, recursive, ms) ==
    IF err # NoError THEN [ms |-> ms, err |-> err]
    ELSE IF node.kind = "dir"
    THEN IF SkipsDir(path, dirPath, recursive)
         THEN [ms |-> ms, err |-> "SkipDir"]
         ELSE [ms |-> ms, err |-> NoError]
    ELSE IF IsYAMLPath(path)
    THEN IF ~node.readable
         THEN [ms |-> ms, err |-> "EACCES"]
         ELSE [ms |-> Append(ms, ContentOf(path)), err |-> NoError]
    ELSE [ms |-> ms, err |-> NoError]

RECURSIVE walk(_, _, _, _, _)
RECURSIVE walkChildren(_, _, _, _, _, _)
\* path/filepath's walk: the directory itself first, then its entries in order
walk(path, node, dirPath, recursive, ms) ==
    IF node.kind # "dir"
    THEN walkFn(path, node, NoError, dirPath, recursive, ms)
    ELSE LET readErr == IF node.readable THEN NoError ELSE "EACCES"
             own     == walkFn(path, node, readErr, dirPath, recursive, ms)
         IN  IF readErr # NoError \/ own.err # NoError
             THEN own
             ELSE walkChildren(path, node.children, 1, dirPath, recursive, own.ms)

walkChildren(path, children, i, dirPath, recursive, ms) ==
    IF i > Len(children) THEN [ms |-> ms, err |-> NoError]
    ELSE LET child == children[i]
             r     == walk(JoinPath(path, child.name), child, dirPath, recursive, ms)
         IN  IF r.err # NoError /\ (child.kind # "dir" \/ r.err # "SkipDir")
             THEN r
             ELSE walkChildren(path, children, i + 1, dirPath, recursive, r.ms)

\* processDirectory (cmd.go:113-144): filepath.Walk turns a SkipDir of the
\* root into nil
processDirectory(dirPath, root, recursive) ==
    LET r == walk(dirPath, root, dirPath, recursive, <<>>)
    IN  [ms |-> r.ms, err |-> IF r.err = "SkipDir" THEN NoError ELSE r.err]

\* getManifestContents without the test for an empty result
getManifestContents_AllowsEmpty(path, root, recursive) ==
    IF root.kind = "missing"
    THEN [kind |-> "return", manifests |-> <<>>, err |-> "ErrReadingManifestFile",
          sent |-> <<>>, logs |-> <<>>]
    ELSE IF root.kind = "dir"
    THEN LET r == processDirectory(path, root, recursive)
         IN  IF r.err # NoError
             THEN [kind |-> "return", manifests |-> <<>>, err |-> "ErrReadingManifestFile",
                   sent |-> <<>>, logs |-> <<>>]
             ELSE [kind |-> "return", manifests |-> r.ms, err |-> NoError,
                   sent |-> <<>>, logs |-> <<>>]
    ELSE IF ~root.readable
    THEN [kind |-> "return", manifests |-> <<>>, err |-> "ErrReadingManifestFile",
          sent |-> <<>>, logs |-> <<>>]
    ELSE [kind |-> "return", manifests |-> <<ContentOf(path)>>, err |-> NoError,
          sent |-> <<>>, logs |-> <<>>]

\* getManifestContents (cmd.go:85-110)
getManifestContents(path, root, recursive) ==
    IF root.kind = "missing"
    THEN [kind |-> "return", manifests |-> <<>>, err |-> "ErrReadingManifestFile",
          sent |-> <<>>, logs |-> <<>>]
    ELSE IF root.kind = "dir"
    THEN LET r == processDirectory(path, root, recursive)
         IN  IF r.err # NoError \/ Len(r.ms) = 0
             THEN [kind |-> "return", manifests |-> <<>>, err |-> "ErrReadingManifestFile",
                   sent |-> <<>>, logs |-> <<>>]
             ELSE [kind |-> "return", manifests |-> r.ms, err |-> NoError,
                   sent |-> <<>>, logs |-> <<>>]
    ELSE IF ~root.readable
    THEN [kind |-> "return", manifests |-> <<>>, err |-> "ErrReadingManifestFile",
          sent |-> <<>>, logs |-> <<>>]
    ELSE [kind |-> "return", manifests |-> <<ContentOf(path)>>, err |-> NoError,
          sent |-> <<>>, logs |-> <<>>]

(***************************************************************************)
(* DownloadPatternAsImage (cmd.go:440-620)                                 *)
(***************************************************************************)
\* nothing has been written to the output path
NoFile == [kind |-> "none"]

\* time.Now().Format(time.RFC3339), in UTC
FormatRFC3339(t) ==
    <<"2","0","2","6","-","1","1","-","0","2","T","1","5",":","0","4",":">>
    \o <<Digit((t \div 10) % 6), Digit(t % 10)>> \o <<"Z">>

\* the placeholder text: its wording differs by cause; it names the design
\* and the time
Placeholder(cause, designID, t) ==
    [kind |-> "placeholder", cause |-> cause, designID |-> designID,
     createdAt |-> FormatRFC3339(t)]

\* os.WriteFile and os.Create fail on an empty path, and on a path the
\* process may not write
CanWrite(outputFile, writable) == outputFile # <<>> /\ writable

\* the placeholder branches: write the placeholder, fail if it cannot be written
WritePlaceholder(cause, designID, outputFile, writable, t, sent, msgs) ==
    IF CanWrite(outputFile, writable)
    THEN [kind |-> "return", err |-> NoError, sent |-> sent,
          logs |-> msgs \o <<"Created placeholder file">>,
          file |-> Placeholder(cause, designID, t)]
    ELSE [kind |-> "return", err |-> "failed to create placeholder file", sent |-> sent,
          logs |-> msgs, file |-> NoFile]

DownloadURL(baseURL, designID) ==
    baseURL
    \o <<"/","a","p","i","/","p","a","t","t","e","r","n","/","d","o","w","n","l","o","a","d","/">>
    \o designID \o <<"/","k","a","n","v","a","s">>

\* the download failing, as the strict submitter does, on a status other than 200
DownloadPatternAsImage_StatusFails(designID, outputFile, token, baseURL, resp, writable, t) ==
    LET req == [method |-> "GET", url |-> DownloadURL(baseURL, designID), auth |-> <<>>,
                cookie |-> CookieValue(token), body |-> <<>>]
        pre == <<"Downloading pattern from">>
    IN  IF IsOfflineID(designID)
        THEN WritePlaceholder("offline", designID, outputFile, writable, t, <<>>,
                 <<"Using offline mode - cannot download an offline design">>)
        ELSE IF token = <<>>
        THEN WritePlaceholder("no token", designID, outputFile, writable, t, <<>>,
                 <<"MESHERY_TOKEN environment variable is not set">>)
        ELSE IF HasCtl(req.url)
        THEN [kind |-> "return", err |-> "http.NewRequest", sent |-> <<>>, logs |-> pre,
              file |-> NoFile]
        ELSE IF ~HasHTTPScheme(req.url) \/ resp.do = "error"
        THEN WritePlaceholder("request failed", designID, outputFile, writable, t,
                 Outbound(req), pre \o <<"Download request failed">>)
        ELSE IF resp.read = "error"
        THEN [kind |-> "return", err |-> "failed to read response body",
              sent |-> Outbound(req), logs |-> pre, file |-> NoFile]
        ELSE IF LooksLikeHTML(Render(resp.body))
        THEN WritePlaceholder("html", designID, outputFile, writable, t, Outbound(req),
                 pre \o <<"Received HTML response instead of design data - authentication failed">>)
        ELSE IF resp.status # StatusOK
        THEN [kind |-> "return", err |-> "unexpected response code", sent |-> Outbound(req),
              logs |-> pre \o <<"Failed to download pattern">>, file |-> NoFile]
        ELSE IF ~CanWrite(outputFile, writable)
        THEN [kind |-> "return", err |-> "os.Create", sent |-> Outbound(req), logs |-> pre,
              file |-> NoFile]
        ELSE [kind |-> "return", err |-> NoError, sent |-> Outbound(req),
              logs |-> pre \o <<"Pattern downloaded successfully">>,
              file |-> [kind |-> "pattern", content |-> Render(resp.body)]]

\* DownloadPatternAsImage
DownloadPatternAsImage(designID, outputFile, token, baseURL, resp, writable, t) ==
    LET req == [method |-> "GET", url |-> DownloadURL(baseURL, designID), auth |-> <<>>,
                cookie |-> CookieValue(token), body |-> <<>>]
        pre == <<"Downloading pattern from">>
    IN  IF IsOfflineID(designID)
        THEN WritePlaceholder("offline", designID, outputFile, writable, t, <<>>,
                 <<"Using offline mode - cannot download an offline design">>)
        ELSE IF token = <<>>
        THEN WritePlaceholder("no token", designID, outputFile, writable, t, <<>>,
                 <<"MESHERY_TOKEN environment variable is not set">>)
        ELSE IF HasCtl(req.url)
        THEN [kind |-> "return", err |-> "http.NewRequest", sent |-> <<>>, logs |-> pre,
              file |-> NoFile]
        ELSE IF ~HasHTTPScheme(req.url) \/ resp.do = "error"
        THEN WritePlaceholder("request failed", designID, outputFile, writable, t,
                 Outbound(req), pre \o <<"Download request failed">>)
        ELSE IF resp.read = "error"
        THEN [kind |-> "return", err |-> "failed to read response body",
              sent |-> Outbound(req), logs |-> pre, file |-> NoFile]
        ELSE IF LooksLikeHTML(Render(resp.body))
        THEN WritePlaceholder("html", designID, outputFile, writable, t, Outbound(req),
                 pre \o <<"Received HTML response instead of design data - authentication failed">>)
        ELSE IF resp.status # StatusOK
        THEN WritePlaceholder("status", designID, outputFile, writable, t, Outbound(req),
                 pre \o <<"Failed to download pattern">>)
        ELSE IF ~CanWrite(outputFile, writable)
        THEN [kind |-> "return", err |-> "os.Create", sent |-> Outbound(req), logs |-> pre,
              file |-> NoFile]
        ELSE [kind |-> "return", err |-> NoError, sent |-> Outbound(req),
              logs |-> pre \o <<"Pattern downloaded successfully">>,
              file |-> [kind |-> "pattern", content |-> Render(resp.body)]]

(***************************************************************************)
(* More of package strings and path/filepath                               *)
(***************************************************************************)
IsSpace(c) == c \in {" ", "\t", "\n", "\r"}

RECURSIVE TrimLeftIn(_, _)
\* strings.TrimLeft for a set of characters
TrimLeftIn(s, cutset) ==
    IF s # <<>> /\ Head(s) \in cutset THEN TrimLeftIn(Tail(s), cutset) ELSE s

RECURSIVE TrimRightIn(_, _)
\* strings.TrimRight for a set of characters
TrimRightIn(s, cutset) ==
    IF s # <<>> /\ s[Len(s)] \in cutset
    THEN TrimRightIn(SubSeq(s, 1, Len(s) - 1), cutset) ELSE s

\* strings.Trim(s, cutset)
Trim(s, cutset) == TrimRightIn(TrimLeftIn(s, cutset), cutset)

\* strings.TrimSpace
TrimSpace(s) == Trim(s, {" ", "\t", "\n", "\r"})

\* strings.TrimSuffix
TrimSuffix(s, suffix) ==
    IF HasSuffix(s, suffix) THEN SubSeq(s, 1, Len(s) - Len(suffix)) ELSE s

\* strings.SplitN(s, sep, 2) for a one-character sep
SplitN2(s, sep) ==
    LET hits == {i \in 1..Len(s) : s[i] = sep}
        at   == CHOOSE i \in hits : \A j \in hits : i <= j
    IN  IF hits = {} THEN << s >>
        ELSE << SubSeq(s, 1, at - 1), SubSeq(s, at + 1, Len(s)) >>

RECURSIVE Join(_, _)
\* strings.Join
Join(elems, sep) ==
    IF elems = <<>> THEN <<>>
    ELSE IF Len(elems) = 1 THEN elems[1]
    ELSE elems[1] \o sep \o Join(Tail(elems), sep)

\* filepath.Ext: from the last dot of the last element of the path
Ext(path) ==
    LET slashes   == {i \in 1..Len(path) : path[i] = "/"}
        lastSlash == IF slashes = {} THEN 0 ELSE CHOOSE i \in slashes : \A j \in slashes : j <= i
        dots      == {i \in (lastSlash + 1)..Len(path) : path[i] = "."}
        lastDot   == CHOOSE i \in dots : \A j \in dots : j <= i
    IN  IF dots = {} THEN <<>> ELSE SubSeq(path, lastDot, Len(path))

\* ExtractNameFromPath (cmd.go:156-159)
ExtractNameFromPath(path) == TrimSuffix(Base(path), Ext(Base(path)))

\* strings.TrimSuffix(MesheryAPIBaseURL, "/api") + "/extension/meshmap/design/" + id
getDesignViewURL(baseURL, designID) ==
    TrimSuffix(baseURL, <<"/","a","p","i">>)
    \o <<"/","e","x","t","e","n","s","i","o","n","/","m","e","s","h","m","a","p","/",
         "d","e","s","i","g","n","/">>
    \o designID

(***************************************************************************)
(* isValidEmail: ^[a-z0-9._%+\-]+@[a-z0-9.\-]+\.[a-z]{2,}$                 *)
(***************************************************************************)
LowerLetters == { LowerCase[i] : i \in 1..26 }
Digits == {"0", "1", "2", "3", "4", "5", "6", "7", "8", "9"}
EmailLocalChars == LowerLetters \cup Digits \cup {".", "_", "%", "+", "-"}
EmailDomainChars == LowerLetters \cup Digits \cup {".", "-"}

\* the pattern accepting any text that holds an @
isValidEmail_AnyAt(email) == \E i \in 1..Len(email) : email[i] = "@"

\* the pattern with a top-level name of one letter or more
isValidEmail_ShortTLD(email) ==
    \E at \in 1..Len(email), dot \in 1..Len(email) :
        /\ email[at] = "@"
        /\ email[dot] = "."
        /\ at >= 2
        /\ dot >= at + 2
        /\ Len(email) - dot >= 1
        /\ \A i \in 1..(at - 1) : email[i] \in EmailLocalChars
        /\ \A i \in (at + 1)..(dot - 1) : email[i] \in EmailDomainChars
        /\ \A i \in (dot + 1)..Len(email) : email[i] \in LowerLetters

\* emailRegex.MatchString(email)
isValidEmail(email) ==
    \E at \in 1..Len(email), dot \in 1..Len(email) :
        /\ email[at] = "@"
        /\ email[dot] = "."
        /\ at >= 2
        /\ dot >= at + 2
        /\ Len(email) - dot >= 2
        /\ \A i \in 1..(at - 1) : email[i] \in EmailLocalChars
        /\ \A i \in (at + 1)..(dot - 1) : email[i] \in EmailDomainChars
        /\ \A i \in (dot + 1)..Len(email) : email[i] \in LowerLetters

(***************************************************************************)
(* config.LoadConfig (config.go:51-97).  The configuration file is absent, *)
(* or cannot be read or parsed ("broken"), or holds a url and an endpoint. *)
(***************************************************************************)
LocalMesheryURL == <<"h","t","t","p",":","/","/","l","o","c","a","l","h","o","s","t",":","9","0","8","1">>
ManifestEndpoint == <<"/","a","p","i","/","k","8","s","c","o","n","t","e","x","t","/","m","a","n","i","f","e","s","t">>

DefaultConfig == [url |-> LocalMesheryURL, endpoint |-> ManifestEndpoint]

LoadConfig(configFile) ==
    IF configFile.state = "absent" THEN [err |-> NoError, cfg |-> DefaultConfig]
    ELSE IF configFile.state = "broken"
    THEN [err |-> "error reading config file", cfg |-> [url |-> <<>>, endpoint |-> <<>>]]
    ELSE [err |-> NoError,
          cfg |-> [url |-> IF configFile.url = <<>> THEN LocalMesheryURL ELSE configFile.url,
                   endpoint |-> IF configFile.endpoint = <<>> THEN ManifestEndpoint
                                ELSE configFile.endpoint]]

(***************************************************************************)
(* main.go: the environment and the .env file                              *)
(***************************************************************************)
envMesheryToken == <<"M","E","S","H","E","R","Y","_","T","O","K","E","N">>
envMesheryCloudURL == <<"M","E","S","H","E","R","Y","_","C","L","O","U","D","_","U","R","L">>
envGitHubToken == <<"G","I","T","H","U","B","_","T","O","K","E","N">>
envMesheryAPIURL == <<"M","E","S","H","E","R","Y","_","A","P","I","_","U","R","L">>

\* os.Getenv: "" for a variable that is not set
Getenv(environ, key) ==
    IF \E i \in 1..Len(environ) : environ[i].key = key
    THEN environ[CHOOSE i \in 1..Len(environ) : environ[i].key = key].value
    ELSE <<>>

\* setEnvironmentVariables (part_003:148-157)
setEnvironmentVariables(mv, environ) ==
    [mv EXCEPT !.providerToken = Getenv(environ, envMesheryToken),
               !.mesheryCloudAPIBaseURL = Getenv(environ, envMesheryCloudURL),
               !.workflowAccessToken = Getenv(environ, envGitHubToken)]

\* one line of the .env file assigned whether or not the variable is set
envLine_Overrides(mv, line) ==
    LET parts == SplitN2(line, "=")
        key   == TrimSpace(parts[1])
        value == Trim(TrimSpace(parts[2]), {"\"", "'"})
    IN  IF HasPrefix(line, <<"#">>) \/ Len(TrimSpace(line)) = 0 THEN mv
        ELSE IF Len(parts) # 2 THEN mv
        ELSE IF key = envMesheryToken THEN [mv EXCEPT !.providerToken = value]
        ELSE IF key = envMesheryCloudURL THEN [mv EXCEPT !.mesheryCloudAPIBaseURL = value]
        ELSE IF key = envGitHubToken THEN [mv EXCEPT !.workflowAccessToken = value]
        ELSE IF key = envMesheryAPIURL /\ mv.mesheryAPIBaseURL = <<>>
        THEN [mv EXCEPT !.mesheryAPIBaseURL = value]
        ELSE mv

\* the body of the scanner loop of loadEnvFile (part_003:99-140)
envLine(mv, line) ==
    LET parts == SplitN2(line, "=")
        key   == TrimSpace(parts[1])
        value == Trim(TrimSpace(parts[2]), {"\"", "'"})
    IN  IF HasPrefix(line, <<"#">>) \/ Len(TrimSpace(line)) = 0 THEN mv
        ELSE IF Len(parts) # 2 THEN mv
        ELSE IF key = envMesheryToken /\ mv.providerToken = <<>>
        THEN [mv EXCEPT !.providerToken = value]
        ELSE IF key = envMesheryCloudURL /\ mv.mesheryCloudAPIBaseURL = <<>>
        THEN [mv EXCEPT !.mesheryCloudAPIBaseURL = value]
        ELSE IF key = envGitHubToken /\ mv.workflowAccessToken = <<>>
        THEN [mv EXCEPT !.workflowAccessToken = value]
        ELSE IF key = envMesheryAPIURL /\ mv.mesheryAPIBaseURL = <<>>
        THEN [mv EXCEPT !.mesheryAPIBaseURL = value]
        ELSE mv

RECURSIVE envLines(_, _, _)
envLines(mv, lines, i) ==
    IF i > Len(lines) THEN mv ELSE envLines(envLine(mv, lines[i]), lines, i + 1)

\* loadEnvFile (part_003:88-145): nothing is done when .env cannot be opened
loadEnvFile(mv, dotenv) ==
    IF dotenv.state # "file" THEN mv ELSE envLines(mv, dotenv.lines, 1)

(***************************************************************************)
(* Main (cmd.go:628-688): the flags.  A flag of the command line is <<>>   *)
(* when it is not passed and <<v>> when it is passed with the value v.     *)
(***************************************************************************)
\* pflag's StringVarP(&p, name, short, "", usage) stores the default "" in p
\* at registration; parsing stores the value of a flag that is passed
StringFlag(passed) == IF passed = <<>> THEN <<>> ELSE passed[1]

DefaultMesheryURL == <<"h","t","t","p","s",":","/","/","p","l","a","y","g","r","o","u","n","d",".","m","e","s","h","e","r","y",".","i","o">>

ManifestSeparator == <<"\n","-","-","-","\n">>

(***************************************************************************)
(* The inputs the operations are exercised on.                             *)
(***************************************************************************)
SampleDesignIDs ==
    { <<>>,
      <<"a","b","c","1","2","3">>,
      OfflinePrefix,
      OfflinePrefix \o <<"x">>,
      generateDummyID(<<"m","y"," ","a","p","p">>, 0),
      <<"o","f","f","l","i","n","e","-","m","o","d","e">>,
      <<"O","f","f","l","i","n","e","-","m","o","d","e","-","x">>,
      <<"x","-">> \o OfflinePrefix }

SampleAssetLocations == { <<>>, <<"s","3",":","/","/","b","/","x",".","p","n","g">> }

SampleTokens == { <<>>, <<"g","h","p","_","1">> }

SampleRepoOwners == { <<>>, <<"a","c","m","e">> }
SampleRepoNames == { <<>>, <<"s","n","a","p","s">> }
SampleWorkflowIDs == { <<>>, <<"w",".","y","m","l">>, <<"w","\n">> }

SampleNames == { <<>>, <<"m","y"," ","a","p","p">>, <<"w","e","b">> }
SampleManifests == { <<"k","i","n","d",":"," ","P","o","d">> }
SampleEmails == { <<>> }
SampleProviderTokens == { <<>>, <<"m","t","k">> }
SampleBaseURLs == { <<>>, <<"h","t","t","p",":","/","/","m",":","9">> }
SampleEndpoints == { <<>>, <<"/","k">> }
SamplePaths == { <<"d","/","a",".","y","a","m","l">> }

IDa == <<"a","1">>
IDb == <<"b","2">>
IDc == <<"c","3">>

\* the values a response may carry under "id" and under "pattern_id"
SampleIDValues(v) == { Missing, JStr(v), JStr(<<>>), JNum }

\* the values a response may carry under "pattern_file"
SamplePatternFiles ==
    { Missing, JNum, JObj(<<>>), JObj(<<Member(KeyID, JStr(IDb))>>),
      JObj(<<Member(KeyID, JNum)>>) }

MemberIfPresent(k, v) == IF v = Missing THEN <<>> ELSE <<Member(k, v)>>

SampleObjects ==
    { JObj(MemberIfPresent(KeyID, a) \o MemberIfPresent(KeyPatternFile, pf)
           \o MemberIfPresent(KeyPatternID, c)) :
        a \in SampleIDValues(IDa), pf \in SamplePatternFiles,
        c \in (SampleIDValues(IDc) \ {JStr(<<>>)}) }
    \cup { JObj(<<Member(KeyID, JNum), Member(KeyID, JStr(IDa))>>),
           JObj(<<Member(KeyID, JStr(HTMLTag))>>),
           JObj(<<Member(<<"I","D">>, JStr(IDa)), Member(KeyPatternFile, JObj(<<>>))>>) }

SampleArrays ==
    { JArr(<<>>),
      JArr(<<Elem(JObj(<<Member(KeyID, JStr(IDa))>>))>>),
      JArr(<<Elem(JObj(<<Member(KeyID, JStr(IDa))>>)), Elem(JObj(<<Member(KeyID, JStr(IDb))>>))>>),
      JArr(<<Elem(JObj(<<>>)), Elem(JObj(<<Member(KeyID, JStr(IDb))>>))>>),
      JArr(<<Elem(JNum), Elem(JObj(<<Member(KeyID, JStr(IDb))>>))>>),
      JArr(<<Elem(JObj(<<Member(KeyID, JNum)>>)), Elem(JObj(<<Member(KeyID, JStr(IDb))>>))>>),
      JArr(<<Elem(JObj(<<Member(KeyID, JStr(<<>>))>>)), Elem(JObj(<<Member(KeyID, JStr(IDb))>>))>>),
      JArr(<<Elem(JObj(<<Member(KeyPatternID, JStr(IDc))>>))>>),
      JArr(<<Elem(JStr(IDa))>>),
      JArr(<<Elem(JObj(<<Member(KeyID, JStr(HTMLTag))>>))>>) }

SampleOtherBodies ==
    { JNull, JNum, JStr(IDa),
      NotJSON(<<>>),
      NotJSON(<<"o","o","p","s">>),
      NotJSON(<<"{">>),
      NotJSON(HTMLDoctype \o HTMLTag \o <<">">>),
      NotJSON(<<" ">> \o HTMLTag \o <<" ","l","a","n","g","=","e","n",">">>),
      NotJSON(<<"<","H","T","M","L",">">>) }

SampleBodies == SampleObjects \cup SampleArrays \cup SampleOtherBodies

SubmitStatuses == {200, 201, 204, 401, 500}

SubmitResponses ==
    { Response("error", "ok", cause, 0, NotJSON(<<>>)) : cause \in {"refused", "timeout"} }
    \cup { Response("ok", "error", cause, s, NotJSON(<<>>)) :
             cause \in {"timeout", "reset"}, s \in {200, 500} }
    \cup { Response("ok", "ok", "none", s, b) : s \in SubmitStatuses, b \in SampleBodies }

\* the manifest path given with -f
ManifestRoot == <<"m">>

\* the names an entry of the root may have, in the order Walk sorts them
RootNames == << <<"A",".","Y","M","L">>, <<"b",".","t","x","t">>,
                <<"c",".","y","a","m","l">>, <<"s","u","b">> >>

\* what a subdirectory may hold
SampleListings ==
    { <<>>,
      << File(<<"x",".","y","a","m","l">>) >>,
      << File(<<"n",".","t","x","t">>) >>,
      << File(<<"X",".","Y","m","l">>),
         Dir(<<"d","e","e","p">>, << File(<<"z",".","y","m","l">>) >>) >>,
      << Dir(<<"d",".","y","a","m","l">>,
             << File(<<"q","y","a","m","l">>), File(<<"r",".","y","a","m","l">>) >>),
         File(<<"y",".","y","a","m","l">>) >> }

\* what may stand under one name of the root: nothing (<<>>) or one node
SampleEntries(name) ==
    { <<>>, << File(name) >>, << UnreadableFile(name) >>, << UnreadableDir(name) >> }
    \cup { << Dir(name, l) >> : l \in SampleListings }

SampleDirs ==
    { Dir(ManifestRoot, e1 \o e2 \o e3 \o e4) :
        e1 \in SampleEntries(RootNames[1]), e2 \in SampleEntries(RootNames[2]),
        e3 \in SampleEntries(RootNames[3]), e4 \in SampleEntries(RootNames[4]) }

SampleTrees ==
    SampleDirs \cup { NoSuchPath, File(ManifestRoot), UnreadableFile(ManifestRoot),
                      UnreadableDir(ManifestRoot) }

DispatchStatuses == {200, 201, 204, 404, 500}

DispatchResponses ==
    { Response("error", "ok", "refused", 0, <<>>) }
    \cup { Response("ok", "ok", "none", s, <<>>) : s \in DispatchStatuses }

(***************************************************************************)
(* The clock                                                               *)
(***************************************************************************)
Tick ==
    /\ now < MaxClock
    /\ now' = now + 1
    /\ UNCHANGED <<pc, call, ret, net, logs, fs, globals, process, outFile, handles>>

\* a function of cmd.go called on its own: no process around it
Running == -1
NoProcess ==
    /\ world = [started |-> FALSE]
    /\ mainVars = [started |-> FALSE]
    /\ flags = [started |-> FALSE]
    /\ run = [started |-> FALSE]
    /\ steps = <<>>
    /\ exitCode = Running
    /\ outFile = NoFile
    /\ handles = <<>>

NoCall == [op |-> "none"]
NoRet == [kind |-> "none"]
EmptyDir == Dir(<<>>, <<>>)

(***************************************************************************)
(* The snapshot trigger run on its own.                                    *)
(***************************************************************************)
InitTrigger ==
    /\ NoProcess
    /\ now \in 0..MaxClock
    /\ pc = "ready"
    /\ call = NoCall
    /\ ret = NoRet
    /\ net = <<>>
    /\ logs = <<>>
    /\ fs = EmptyDir
    /\ ProviderToken = <<>>
    /\ MesheryAPIBaseURL = <<>>
    /\ SnapshotEndpoint = <<>>
    /\ repoOwner \in SampleRepoOwners
    /\ repoName \in SampleRepoNames
    /\ workflowID \in SampleWorkflowIDs

\* The handles an operation acquires on the way to the result r, in order.
\* client.Do hands back a response, and with it a body to close, when it
\* returns no error (cmd.go:214, 418, 516; part_002:219, 380); os.Create
\* hands back the output file (cmd.go:604), which only the path that writes
\* the pattern reaches.  os.WriteFile and os.ReadFile hand back nothing.
Acquired(r, resp) ==
    (IF "sent" \in DOMAIN r /\ r.sent # <<>> /\ resp.do = "ok" THEN <<"body">> ELSE <<>>)
    \o (IF "file" \in DOMAIN r /\ r.file.kind = "pattern" THEN <<"file">> ELSE <<>>)

\* only the output file has a deferred Close
Deferred_FileOnly(acquired) == SelectSeq(acquired, LAMBDA h : h = "file")

\* The handles with a deferred Close: each acquisition is followed, after
\* the check of its error, by defer resp.Body.Close() (cmd.go:223, 423, 542;
\* part_002:224, 385) or defer out.Close() (cmd.go:608).
Deferred(acquired) == acquired

Reverse(s) == [i \in 1..Len(s) |-> s[Len(s) + 1 - i]]

\* What happens to handles while op runs: each is opened, and when op
\* returns or panics its deferred calls run, the last deferred first.
HandleEvents(op, r, resp) ==
    LET acquired == Acquired(r, resp)
        deferred == Deferred(acquired)
    IN  [i \in 1..Len(acquired) |-> [op |-> op, handle |-> acquired[i], event |-> "open"]]
        \o [i \in 1..Len(deferred) |->
               [op |-> op, handle |-> Reverse(deferred)[i], event |-> "close"]]

Returned(op, args, resp, r) ==
    /\ handles' = handles \o HandleEvents(op, r, resp)
    /\ pc' = (IF r.kind = "panic" THEN "panicked" ELSE "returned")
    /\ call' = [op |-> op, args |-> args, resp |-> resp]
    /\ ret' = r
    /\ net' = net \o r.sent
    /\ logs' = logs \o r.logs

CallGenerateSnapshot ==
    /\ pc = "ready"
    /\ \E designID \in SampleDesignIDs, assetLocation \in SampleAssetLocations,
          token \in SampleTokens, resp \in DispatchResponses :
          Returned("GenerateSnapshot",
                   [designID |-> designID, assetLocation |-> assetLocation, token |-> token],
                   resp,
                   GenerateSnapshot(designID, assetLocation, token,
                                    repoOwner, repoName, workflowID, resp))
    /\ UNCHANGED <<now, fs, globals, process, outFile>>

CallGenerateSnapshotStrict ==
    /\ pc = "ready"
    /\ \E designID \in SampleDesignIDs, assetLocation \in SampleAssetLocations,
          token \in SampleTokens, resp \in DispatchResponses :
          Returned("GenerateSnapshotStrict",
                   [designID |-> designID, assetLocation |-> assetLocation, token |-> token],
                   resp,
                   GenerateSnapshotStrict(designID, assetLocation, token,
                                          repoOwner, repoName, workflowID, resp))
    /\ UNCHANGED <<now, fs, globals, process, outFile>>

NextTrigger ==
    \/ Tick
    \/ CallGenerateSnapshot
    \/ CallGenerateSnapshotStrict

SpecTrigger == InitTrigger /\ [][NextTrigger]_vars

(***************************************************************************)
(* The design submitter run on its own.                                    *)
(***************************************************************************)
InitSubmit ==
    /\ NoProcess
    /\ now \in 0..MaxClock
    /\ pc = "ready"
    /\ call = NoCall
    /\ ret = NoRet
    /\ net = <<>>
    /\ logs = <<>>
    /\ fs = EmptyDir
    /\ ProviderToken \in SampleProviderTokens
    /\ MesheryAPIBaseURL \in SampleBaseURLs
    /\ SnapshotEndpoint \in SampleEndpoints
    /\ repoOwner = <<>>
    /\ repoName = <<>>
    /\ workflowID = <<>>

CallCreateMesheryDesign ==
    /\ pc = "ready"
    /\ \E manifest \in SampleManifests, name \in SampleNames, email \in SampleEmails,
          resp \in SubmitResponses :
          Returned("CreateMesheryDesign",
                   [manifest |-> manifest, name |-> name, email |-> email],
                   resp,
                   CreateMesheryDesign(manifest, name, email, ProviderToken,
                                       MesheryAPIBaseURL, SnapshotEndpoint, resp, now))
    /\ UNCHANGED <<now, fs, globals, process, outFile>>

CallCreateMesheryDesignStrict ==
    /\ pc = "ready"
    /\ \E manifest \in SampleManifests, name \in SampleNames, email \in SampleEmails,
          path \in SamplePaths, resp \in SubmitResponses :
          Returned("CreateMesheryDesignStrict",
                   [manifest |-> manifest, name |-> name, email |-> email],
                   resp,
                   CreateMesheryDesignStrict(manifest, name, email, ProviderToken,
                                             MesheryAPIBaseURL, SnapshotEndpoint, path, resp))
    /\ UNCHANGED <<now, fs, globals, process, outFile>>

NextSubmit ==
    \/ Tick
    \/ CallCreateMesheryDesign
    \/ CallCreateMesheryDesignStrict

SpecSubmit == InitSubmit /\ [][NextSubmit]_vars

(***************************************************************************)
(* The manifest collector run on its own.                                  *)
(***************************************************************************)
InitCollect ==
    /\ NoProcess
    /\ now = 0
    /\ pc = "ready"
    /\ call = NoCall
    /\ ret = NoRet
    /\ net = <<>>
    /\ logs = <<>>
    /\ fs \in SampleTrees
    /\ ProviderToken = <<>>
    /\ MesheryAPIBaseURL = <<>>
    /\ SnapshotEndpoint = <<>>
    /\ repoOwner = <<>>
    /\ repoName = <<>>
    /\ workflowID = <<>>

CallGetManifestContents ==
    /\ pc = "ready"
    /\ \E recursive \in BOOLEAN :
          Returned("getManifestContents",
                   [path |-> ManifestRoot, recursive |-> recursive],
                   Response("none", "none", "none", 0, <<>>),
                   getManifestContents(ManifestRoot, fs, recursive))
    /\ UNCHANGED <<now, fs, globals, process, outFile>>

NextCollect == CallGetManifestContents

SpecCollect == InitCollect /\ [][NextCollect]_vars

(***************************************************************************)
(* The direct download run on its own.                                     *)
(***************************************************************************)
SampleDownloadIDs ==
    { <<"a","b","c","1","2","3">>, OfflinePrefix \o <<"x">>, <<"a","\n","b">> }

SampleOutputFiles == { <<>>, <<"o",".","y","a","m","l">> }

DownloadStatuses == {200, 204, 404, 500}

SampleDownloadBodies ==
    { NotJSON(<<"k","i","n","d",":"," ","P","o","d">>),
      NotJSON(<<>>),
      NotJSON(HTMLDoctype \o HTMLTag \o <<">">>),
      NotJSON(<<" ">> \o HTMLTag \o <<" ","l","a","n","g","=","e","n",">">>),
      NotJSON(<<"<","H","T","M","L",">">>) }

DownloadResponses ==
    { Response("error", "ok", cause, 0, NotJSON(<<>>)) : cause \in {"refused", "timeout"} }
    \cup { Response("ok", "error", cause, s, NotJSON(<<>>)) :
             cause \in {"timeout", "reset"}, s \in {200, 500} }
    \cup { Response("ok", "ok", "none", s, b) : s \in DownloadStatuses, b \in SampleDownloadBodies }

InitDownload ==
    /\ now \in 0..MaxClock
    /\ pc = "ready"
    /\ call = NoCall
    /\ ret = NoRet
    /\ net = <<>>
    /\ logs = <<>>
    /\ fs = EmptyDir
    /\ ProviderToken \in SampleProviderTokens
    /\ MesheryAPIBaseURL \in SampleBaseURLs
    /\ SnapshotEndpoint = <<>>
    /\ repoOwner = <<>>
    /\ repoName = <<>>
    /\ workflowID = <<>>
    /\ world \in { [started |-> FALSE, outWritable |-> w] : w \in BOOLEAN }
    /\ mainVars = [started |-> FALSE]
    /\ flags = [started |-> FALSE]
    /\ run = [started |-> FALSE]
    /\ steps = <<>>
    /\ exitCode = Running
    /\ outFile = NoFile
    /\ handles = <<>>

CallDownloadPatternAsImage ==
    /\ pc = "ready"
    /\ \E designID \in SampleDownloadIDs, outputFile \in SampleOutputFiles,
          resp \in DownloadResponses :
          LET r == DownloadPatternAsImage(designID, outputFile, ProviderToken,
                                          MesheryAPIBaseURL, resp, world.outWritable, now)
          IN  /\ Returned("DownloadPatternAsImage",
                          [designID |-> designID, outputFile |-> outputFile], resp, r)
              /\ outFile' = IF r.file = NoFile THEN outFile ELSE r.file
    /\ UNCHANGED <<now, fs, globals, process>>

NextDownload ==
    \/ Tick
    \/ CallDownloadPatternAsImage

SpecDownload == InitDownload /\ [][NextDownload]_vars

(***************************************************************************)
(* The process, from main to its exit (part_003:34-85, cmd.go:628-821).    *)
(* pc is the step that runs next: "main", "setEnvironmentVariables",       *)
(* "loadEnvFile", "Main", "RunE", "collect", "submit", "post", and         *)
(* "exited" once the process is gone.                                      *)
(***************************************************************************)
ExitOK == 0
ExitError == 1
ExitPanic == 2

SampleMesheryToken == <<"m","t","k">>
SampleGitHubToken == <<"g","h","p","_","1">>
SampleCloudURL == <<"h","t","t","p","s",":","/","/","c">>
SampleFlagToken == <<"f","t","k">>

EnvVar(key, value) == [key |-> key, value |-> value]

RunEnvirons ==
    { <<>>,
      << EnvVar(envMesheryToken, SampleMesheryToken) >>,
      << EnvVar(envGitHubToken, SampleGitHubToken), EnvVar(envMesheryCloudURL, SampleCloudURL) >>,
      << EnvVar(envMesheryToken, SampleMesheryToken), EnvVar(envGitHubToken, SampleGitHubToken),
         EnvVar(envMesheryCloudURL, SampleCloudURL) >> }

DotEnvQuoted ==
    << <<"#"," ","t","o","k","e","n","s">>,
       <<"M","E","S","H","E","R","Y","_","T","O","K","E","N","=","\"","d","o","t","-","m","\"">>,
       <<" ","G","I","T","H","U","B","_","T","O","K","E","N"," ","="," ","d","o","t","-","g"," ">>,
       <<"M","E","S","H","E","R","Y","_","C","L","O","U","D","_","U","R","L","=","'","h","t","t","p","s",":","/","/","d","'">>,
       <<>> >>

DotEnvRepeated ==
    << <<"M","E","S","H","E","R","Y","_","T","O","K","E","N">>,
       <<"M","E","S","H","E","R","Y","_","T","O","K","E","N","=">>,
       <<"M","E","S","H","E","R","Y","_","T","O","K","E","N","=","s","e","c","o","n","d">>,
       <<"O","T","H","E","R","=","x">>,
       <<"G","I","T","H","U","B","_","T","O","K","E","N","=","a","=","b">> >>

RunDotEnvs ==
    { [state |-> "missing", lines |-> <<>>],
      [state |-> "unreadable", lines |-> <<>>],
      [state |-> "file", lines |-> DotEnvQuoted],
      [state |-> "file", lines |-> DotEnvRepeated] }

RunConfigFiles ==
    { [state |-> "absent", url |-> <<>>, endpoint |-> <<>>],
      [state |-> "broken", url |-> <<>>, endpoint |-> <<>>],
      [state |-> "file", url |-> <<"h","t","t","p",":","/","/","c","f","g",":","1">>, endpoint |-> <<>>] }

SampleGoodEmail == <<"a",".","b","@","x","-","y",".","i","o">>
SampleBadEmails == { <<"n","o","b","o","d","y">>, <<"A","@","x",".","i","o">> }
SampleOutputFile == <<"o",".","y","a","m","l">>

\* the command lines: -f is always m, except in the one that lacks it
AllRunArgs ==
    { [file |-> << ManifestRoot >>, token |-> tk, url |-> <<>>, email |-> em, name |-> <<>>,
       output |-> out, recursive |-> rec, skip |-> sk, download |-> dl,
       repoOwner |-> <<>>, repoName |-> <<>>, branch |-> <<>>, workflow |-> <<>>] :
        tk \in { <<>>, << SampleFlagToken >> },
        em \in { <<>>, << SampleGoodEmail >> } \cup { << e >> : e \in SampleBadEmails },
        out \in { <<>>, << SampleOutputFile >> },
        rec \in BOOLEAN, sk \in BOOLEAN, dl \in BOOLEAN }
    \cup
    { [file |-> f, token |-> <<>>, url |-> u, email |-> <<>>, name |-> n,
       output |-> <<>>, recursive |-> FALSE, skip |-> FALSE, download |-> FALSE,
       repoOwner |-> o, repoName |-> o, branch |-> o, workflow |-> w] :
        f \in { <<>>, << ManifestRoot >> },
        u \in { <<>>, << <<"h","t","t","p",":","/","/","m",":","9">> >> },
        n \in { <<>>, << <<"w","e","b">> >> },
        o \in { <<>>, << <<"a","c","m","e">> >> },
        w \in { <<>>, << <<"w","\n">> >> } }
    \cup
    { [file |-> << ManifestRoot >>, token |-> tk, url |-> <<>>, email |-> <<>>, name |-> << n >>,
       output |-> <<>>, recursive |-> FALSE, skip |-> FALSE, download |-> dl,
       repoOwner |-> <<>>, repoName |-> <<>>, branch |-> <<>>, workflow |-> <<>>] :
        tk \in { <<>>, << SampleFlagToken >> },
        n \in { <<"m","y"," ","a","p","p">>, <<" ">> },
        dl \in BOOLEAN }

\* an output path matters to a run that downloads, and to no other
RunArgs == { a \in AllRunArgs : a.output # <<>> => a.download }

AllRunWorlds ==
    { [started |-> TRUE, environ |-> e, dotenv |-> d, configFile |-> c, args |-> a,
       outWritable |-> w] :
        e \in RunEnvirons, d \in RunDotEnvs, c \in RunConfigFiles, a \in RunArgs,
        w \in BOOLEAN }

RunWorlds == { w \in AllRunWorlds : ~w.args.download => w.outWritable }

RunTrees ==
    { NoSuchPath,
      Dir(ManifestRoot, << File(<<"c",".","y","a","m","l">>), File(<<"d",".","Y","M","L">>) >>),
      Dir(ManifestRoot, << Dir(<<"s","u","b">>, << File(<<"x",".","y","a","m","l">>) >>) >>) }

RunSubmitResponses ==
    { Response("error", "ok", "refused", 0, NotJSON(<<>>)),
      Response("ok", "error", "timeout", 200, NotJSON(<<>>)),
      Response("ok", "ok", "none", 200, JObj(<< Member(KeyID, JStr(IDa)) >>)),
      Response("ok", "ok", "none", 201, JArr(<< Elem(JObj(<< Member(KeyID, JStr(IDb)) >>)) >>)),
      Response("ok", "ok", "none", 200, NotJSON(HTMLDoctype \o HTMLTag \o <<">">>)),
      Response("ok", "ok", "none", 500, JObj(<< Member(KeyID, JStr(IDa)) >>)),
      Response("ok", "ok", "none", 200, JObj(<<>>)) }

RunDownloadResponses ==
    { Response("error", "ok", "refused", 0, NotJSON(<<>>)),
      Response("ok", "error", "reset", 200, NotJSON(<<>>)),
      Response("ok", "ok", "none", 200, NotJSON(<<"k","i","n","d",":"," ","P","o","d">>)),
      Response("ok", "ok", "none", 404, NotJSON(<<>>)) }

InitRun ==
    /\ now = 0
    /\ pc = "main"
    /\ call = NoCall
    /\ ret = NoRet
    /\ net = <<>>
    /\ logs = <<>>
    /\ fs \in RunTrees
    /\ ProviderToken = <<>>
    /\ MesheryAPIBaseURL = <<>>
    /\ SnapshotEndpoint = <<>>
    /\ repoOwner = <<>>
    /\ repoName = <<>>
    /\ workflowID = <<>>
    /\ world \in RunWorlds
    /\ mainVars = [started |-> TRUE, providerToken |-> <<>>, mesheryCloudAPIBaseURL |-> <<>>,
                   mesheryAPIBaseURL |-> <<>>, workflowAccessToken |-> <<>>]
    /\ flags = [started |-> TRUE, manifestPath |-> <<>>, email |-> <<>>, designName |-> <<>>,
                recursive |-> FALSE, skipWorkflow |-> FALSE, downloadPattern |-> FALSE,
                outputFile |-> <<>>, branchName |-> <<>>, WorkflowAccessToken |-> <<>>,
                MesheryCloudAPIBaseURL |-> <<>>]
    /\ run = [started |-> TRUE, manifests |-> <<>>, designID |-> <<>>, err |-> NoError]
    /\ steps = <<>>
    /\ exitCode = Running
    /\ outFile = NoFile
    /\ handles = <<>>

\* the process ends with this exit code
Exit(code) == pc' = "exited" /\ exitCode' = code

\* kanvasSnapshotRunE returns err: Execute returns it and Main calls
\* os.Exit(1) (cmd.go:684-687); on nil Main and main return
RunEReturns(err) ==
    /\ run' = [run EXCEPT !.err = err]
    /\ Exit(IF err = NoError THEN ExitOK ELSE ExitError)

\* main, part_003:34-59
main_LoadConfig ==
    /\ pc = "main"
    /\ LET c == LoadConfig(world.configFile)
       IN  IF c.err # NoError
           THEN /\ Exit(ExitError)
                /\ logs' = Append(logs, "Failed to load configuration")
                /\ UNCHANGED mainVars
           ELSE /\ pc' = "setEnvironmentVariables"
                /\ mainVars' = [mainVars EXCEPT !.mesheryAPIBaseURL = c.cfg.url]
                /\ UNCHANGED <<exitCode, logs>>
    /\ UNCHANGED <<handles, now, call, ret, net, fs, globals, world, flags, run, steps, outFile>>

\* main, part_003:61-62
main_setEnvironmentVariables ==
    /\ pc = "setEnvironmentVariables"
    /\ mainVars' = setEnvironmentVariables(mainVars, world.environ)
    /\ pc' = "loadEnvFile"
    /\ UNCHANGED <<handles, now, call, ret, net, logs, fs, globals, world, flags, run, steps,
                   exitCode, outFile>>

\* main, part_003:64-81
main_loadEnvFile ==
    /\ pc = "loadEnvFile"
    /\ mainVars' = loadEnvFile(mainVars, world.dotenv)
    /\ pc' = "Main"
    /\ logs' = logs
         \o (IF mainVars'.providerToken = <<>>
             THEN <<"MESHERY_TOKEN environment variable not set. Working in offline mode.">>
             ELSE <<>>)
         \o (IF mainVars'.workflowAccessToken = <<>>
             THEN <<"GITHUB_TOKEN environment variable not set. Snapshot generation will be skipped.">>
             ELSE <<>>)
    /\ UNCHANGED <<handles, now, call, ret, net, fs, globals, world, flags, run, steps, exitCode, outFile>>

\* Main, cmd.go:628-688, up to the call of kanvasSnapshotRunE by Execute:
\* the parameters are stored in the package variables, the configuration is
\* loaded, the flags are registered (which stores each flag's default in the
\* variable it is bound to) and the command line is parsed.
Main_Execute ==
    /\ pc = "Main"
    /\ LET c    == LoadConfig(world.configFile)
           args == world.args
       IN  /\ ProviderToken' = StringFlag(args.token)
           /\ MesheryAPIBaseURL' = StringFlag(args.url)
           /\ SnapshotEndpoint' = (IF c.err = NoError THEN c.cfg.endpoint ELSE <<>>)
           /\ repoOwner' = StringFlag(args.repoOwner)
           /\ repoName' = StringFlag(args.repoName)
           /\ workflowID' = StringFlag(args.workflow)
           /\ flags' = [started |-> TRUE,
                        manifestPath |-> StringFlag(args.file),
                        email |-> StringFlag(args.email),
                        designName |-> StringFlag(args.name),
                        recursive |-> args.recursive,
                        skipWorkflow |-> args.skip,
                        downloadPattern |-> args.download,
                        outputFile |-> StringFlag(args.output),
                        branchName |-> StringFlag(args.branch),
                        WorkflowAccessToken |-> mainVars.workflowAccessToken,
                        MesheryCloudAPIBaseURL |-> mainVars.mesheryCloudAPIBaseURL]
           /\ logs' = Append(logs, IF c.err = NoError THEN "Loaded configuration from"
                                   ELSE "Failed to load configuration")
           /\ IF args.file = <<>>
              THEN Exit(ExitError)
              ELSE pc' = "RunE" /\ UNCHANGED exitCode
    /\ UNCHANGED <<handles, now, call, ret, net, fs, world, mainVars, run, steps, outFile>>

\* kanvasSnapshotRunE, cmd.go:720-751
RunE_Validate ==
    /\ pc = "RunE"
    /\ MesheryAPIBaseURL' = (IF MesheryAPIBaseURL = <<>> THEN DefaultMesheryURL
                             ELSE MesheryAPIBaseURL)
    /\ flags' = [flags EXCEPT !.designName =
                    IF @ = <<>> THEN ExtractNameFromPath(flags.manifestPath) ELSE @]
    /\ logs' = logs
         \o (IF ProviderToken = <<>>
             THEN <<"MESHERY_TOKEN environment variable not set. Working in offline mode.">>
             ELSE <<>>)
         \o (IF MesheryAPIBaseURL = <<>>
             THEN <<"Meshery API URL not set. Using default: http://localhost:9081">>
             ELSE <<>>)
         \o <<"Using Meshery API URL", "Using API endpoint">>
         \o (IF flags.designName = <<>> THEN <<"No design name provided. Using extracted name">>
             ELSE <<>>)
    /\ steps' = Append(steps, "kanvasSnapshotRunE")
    /\ IF flags.email # <<>> /\ ~isValidEmail(flags.email)
       THEN RunEReturns("ErrInvalidEmailFormat")
       ELSE pc' = "collect" /\ UNCHANGED <<run, exitCode>>
    /\ UNCHANGED <<handles, now, call, ret, net, fs, ProviderToken, SnapshotEndpoint, repoOwner,
                   repoName, workflowID, world, mainVars, outFile>>

\* kanvasSnapshotRunE, cmd.go:753-759
RunE_Collect ==
    /\ pc = "collect"
    /\ LET r == getManifestContents(flags.manifestPath, fs, flags.recursive)
       IN  /\ call' = [op |-> "getManifestContents",
                       args |-> [path |-> flags.manifestPath, recursive |-> flags.recursive],
                       resp |-> Response("none", "none", "none", 0, <<>>)]
           /\ ret' = r
           /\ steps' = Append(steps, "getManifestContents")
           /\ IF r.err # NoError
              THEN /\ RunEReturns(r.err)
                   /\ logs' = Append(logs, "Processing manifest files...")
              ELSE /\ run' = [run EXCEPT !.manifests = r.manifests]
                   /\ pc' = "submit"
                   /\ logs' = logs \o <<"Processing manifest files...", "Processed manifest file(s)">>
                   /\ UNCHANGED exitCode
    /\ UNCHANGED <<handles, now, net, fs, globals, world, mainVars, flags, outFile>>

\* kanvasSnapshotRunE, cmd.go:761-775
RunE_Submit ==
    /\ pc = "submit"
    /\ \E resp \in RunSubmitResponses :
          LET combinedManifest == Join(run.manifests, ManifestSeparator)
              r == CreateMesheryDesign(combinedManifest, flags.designName, flags.email,
                                       ProviderToken, MesheryAPIBaseURL, SnapshotEndpoint,
                                       resp, now)
          IN  /\ call' = [op |-> "CreateMesheryDesign",
                          args |-> [manifest |-> combinedManifest, name |-> flags.designName,
                                    email |-> flags.email],
                          resp |-> resp]
              /\ ret' = r
              /\ steps' = Append(steps, "CreateMesheryDesign")
              /\ net' = net \o r.sent
              /\ handles' = handles \o HandleEvents("CreateMesheryDesign", r, resp)
              /\ IF r.kind = "panic"
                 THEN /\ Exit(ExitPanic)
                      /\ logs' = logs \o <<"Creating Meshery design...">> \o r.logs
                      /\ UNCHANGED run
                 ELSE IF r.err # NoError
                 THEN /\ RunEReturns("ErrCreatingMesheryDesign")
                      /\ logs' = logs \o <<"Creating Meshery design...">> \o r.logs
                                   \o <<"Failed to create Meshery design">>
                 ELSE /\ run' = [run EXCEPT !.designID = r.id]
                      /\ pc' = "post"
                      /\ logs' = logs \o <<"Creating Meshery design...">> \o r.logs
                                   \o <<"View your design in Meshery">>
                      /\ UNCHANGED exitCode
    /\ UNCHANGED <<now, fs, globals, world, mainVars, flags, outFile>>

\* the branches tested with the skip flag first
PostStep_SkipFirst(downloadPattern, skipWorkflow) ==
    IF skipWorkflow THEN "skip" ELSE IF downloadPattern THEN "download" ELSE "trigger"

\* what follows the submission (cmd.go:777, 788, 794): the download if
\* downloadPattern, else nothing if skipWorkflow, else the trigger
PostStep(downloadPattern, skipWorkflow) ==
    IF downloadPattern THEN "download" ELSE IF skipWorkflow THEN "skip" ELSE "trigger"

\* kanvasSnapshotRunE, cmd.go:777-786
RunE_Download ==
    /\ pc = "post"
    /\ PostStep(flags.downloadPattern, flags.skipWorkflow) = "download"
    /\ \E resp \in RunDownloadResponses :
          LET r == DownloadPatternAsImage(run.designID, flags.outputFile, ProviderToken,
                                          MesheryAPIBaseURL, resp, world.outWritable, now)
          IN  /\ call' = [op |-> "DownloadPatternAsImage",
                          args |-> [designID |-> run.designID, outputFile |-> flags.outputFile],
                          resp |-> resp]
              /\ ret' = r
              /\ steps' = Append(steps, "DownloadPatternAsImage")
              /\ net' = net \o r.sent
              /\ handles' = handles \o HandleEvents("DownloadPatternAsImage", r, resp)
              /\ outFile' = (IF r.file = NoFile THEN outFile ELSE r.file)
              /\ logs' = logs \o <<"Downloading pattern directly...">> \o r.logs
                           \o (IF r.err # NoError THEN <<"Failed to download pattern">> ELSE <<>>)
              /\ RunEReturns(r.err)
    /\ UNCHANGED <<now, fs, globals, world, mainVars, flags>>

\* kanvasSnapshotRunE, cmd.go:788-792
RunE_Skip ==
    /\ pc = "post"
    /\ PostStep(flags.downloadPattern, flags.skipWorkflow) = "skip"
    /\ logs' = logs \o <<"Skipping publishing as --skip-workflow flag is set.",
                         "Design created successfully with ID">>
    /\ RunEReturns(NoError)
    /\ UNCHANGED <<handles, now, call, ret, net, fs, globals, world, mainVars, flags, steps, outFile>>

\* kanvasSnapshotRunE, cmd.go:794-821
RunE_Trigger ==
    /\ pc = "post"
    /\ PostStep(flags.downloadPattern, flags.skipWorkflow) = "trigger"
    /\ \E resp \in DispatchResponses :
          LET r == GenerateSnapshot(run.designID, <<>>, flags.WorkflowAccessToken,
                                    repoOwner, repoName, workflowID, resp)
          IN  /\ call' = [op |-> "GenerateSnapshot",
                          args |-> [designID |-> run.designID, assetLocation |-> <<>>,
                                    token |-> flags.WorkflowAccessToken],
                          resp |-> resp]
              /\ ret' = r
              /\ steps' = Append(steps, "GenerateSnapshot")
              /\ net' = net \o r.sent
              /\ handles' = handles \o HandleEvents("GenerateSnapshot", r, resp)
              /\ IF r.err # NoError
                 THEN /\ RunEReturns("ErrGeneratingSnapshot")
                      /\ logs' = logs \o <<"Triggering GitHub workflow to generate snapshot...">>
                                   \o r.logs
                      /\ UNCHANGED <<repoOwner, repoName, workflowID>>
                 ELSE /\ RunEReturns(NoError)
                      /\ logs' = logs \o <<"Triggering GitHub workflow to generate snapshot...">>
                                   \o r.logs
                                   \o <<"Design created successfully with ID",
                                        "GitHub workflow has been triggered to generate a snapshot.",
                                        "To access the snapshot images:">>
                      /\ repoOwner' = (IF repoOwner = <<>> THEN <<"l","a","y","e","r","5","l","a","b","s">>
                                       ELSE repoOwner)
                      /\ repoName' = (IF repoName = <<>> THEN <<"m","e","s","h","e","r","y">>
                                      ELSE repoName)
                      /\ workflowID' = (IF workflowID = <<>>
                                        THEN <<"k","a","n","v","a","s",".","y","a","m","l">>
                                        ELSE workflowID)
    /\ UNCHANGED <<now, fs, ProviderToken, MesheryAPIBaseURL, SnapshotEndpoint, world,
                   mainVars, flags, outFile>>

NextRun ==
    \/ main_LoadConfig
    \/ main_setEnvironmentVariables
    \/ main_loadEnvFile
    \/ Main_Execute
    \/ RunE_Validate
    \/ RunE_Collect
    \/ RunE_Submit
    \/ RunE_Download
    \/ RunE_Skip
    \/ RunE_Trigger

SpecRun == InitRun /\ [][NextRun]_vars

(***************************************************************************)
(* Claims about the snapshot trigger                                       *)
(***************************************************************************)
\* s = "offline-mode-" followed by anything, stated character by character
StartsWithOfflineMode(s) ==
    /\ Len(s) >= 13
    /\ \A i \in 1..13 : s[i] = OfflinePrefix[i]

\* C1: GenerateSnapshot (cmd.go) called with an identifier that starts with
\* "offline-mode-" issues no HTTP request and returns nil, whatever the
\* asset location and the access token are.
C1_OfflineIDNoDispatch ==
    (/\ pc # "ready"
     /\ call.op = "GenerateSnapshot"
     /\ StartsWithOfflineMode(call.args.designID))
    => (/\ pc = "returned"
        /\ ret.err = NoError
        /\ ret.sent = <<>>
        /\ net = <<>>)

\* C1's case: an offline identifier longer than the prefix, with an access
\* token and an asset location, has been handed to GenerateSnapshot.
C1_Witness ==
    /\ pc = "returned"
    /\ call.op = "GenerateSnapshot"
    /\ StartsWithOfflineMode(call.args.designID)
    /\ Len(call.args.designID) > 13
    /\ call.args.token # <<>>
    /\ call.args.assetLocation # <<>>
    /\ net = <<>>

\* C2: GenerateSnapshot (both variants) called with an empty access token
\* issues no HTTP request and returns nil, whatever the identifier and the
\* asset location are.
C2_EmptyTokenNoDispatch ==
    (/\ pc # "ready"
     /\ call.op \in {"GenerateSnapshot", "GenerateSnapshotStrict"}
     /\ Len(call.args.token) = 0)
    => (/\ pc = "returned"
        /\ ret.err = NoError
        /\ ret.sent = <<>>
        /\ net = <<>>)

\* C2's case: a call with an empty token and an identifier that is not an
\* offline one, in the strict variant (which has no other no-op check).
C2_Witness ==
    /\ pc = "returned"
    /\ call.op = "GenerateSnapshotStrict"
    /\ Len(call.args.token) = 0
    /\ ~StartsWithOfflineMode(call.args.designID)
    /\ call.args.designID # <<>>
    /\ net = <<>>

\* C2's case in the lenient variant
C2_WitnessLenient ==
    /\ pc = "returned"
    /\ call.op = "GenerateSnapshot"
    /\ Len(call.args.token) = 0
    /\ ~StartsWithOfflineMode(call.args.designID)
    /\ net = <<>>

(***************************************************************************)
(* Claims about the design submitter                                       *)
(***************************************************************************)
Lenient == pc # "ready" /\ call.op = "CreateMesheryDesign"
EitherVariant == pc # "ready" /\ call.op \in {"CreateMesheryDesign", "CreateMesheryDesignStrict"}

\* the POST went out, and its response came back and was read to the end
ResponseRead == net # <<>> /\ call.resp.do = "ok" /\ call.resp.read = "ok"

\* text holds marker at some position, stated character by character
HoldsMarker(text, marker) ==
    \E i \in 0..Len(text) :
        /\ i + Len(marker) <= Len(text)
        /\ \A j \in 1..Len(marker) : text[i + j] = marker[j]

BodyText == Render(call.resp.body)
HTMLBody == HoldsMarker(BodyText, HTMLDoctype) \/ HoldsMarker(BodyText, HTMLTag)
Status2xxCreated == call.resp.status \in {200, 201}

\* the call returned this identifier and a nil error
ReturnedID(id) == pc = "returned" /\ ret.kind = "return" /\ ret.id = id /\ ret.err = NoError

\* the call returned an "offline-mode-" identifier and a nil error
ReturnedOfflineID ==
    pc = "returned" /\ ret.kind = "return" /\ StartsWithOfflineMode(ret.id) /\ ret.err = NoError

Logged(msg) == \E i \in 1..Len(logs) : logs[i] = msg

\* C3: in the lenient CreateMesheryDesign every transport failure of the
\* submission POST (no connection, or the client's timeout elapsing before
\* the response has been read in full) yields an "offline-mode-" identifier
\* and a nil error.
C3_TransportFailureDegrades ==
    (/\ Lenient
     /\ \/ call.resp.do = "error"
        \/ call.resp.do = "ok" /\ call.resp.read = "error" /\ call.resp.cause = "timeout")
    => ReturnedOfflineID

\* The part of C3 the code does keep: a failure of client.Do degrades.
C3_DoFailureDegrades ==
    (Lenient /\ call.resp.do = "error") => ReturnedOfflineID

C3_DoFailureWitness ==
    /\ Lenient
    /\ call.resp.do = "error"
    /\ call.resp.cause = "timeout"
    /\ net # <<>>
    /\ ReturnedOfflineID

\* the three response shapes of C4, each carrying v under one key alone
ShapeID(v) == JObj(<<Member(KeyID, JStr(v))>>)
ShapePatternFileID(v) == JObj(<<Member(KeyPatternFile, JObj(<<Member(KeyID, JStr(v))>>))>>)
ShapePatternID(v) == JObj(<<Member(KeyPatternID, JStr(v))>>)

SampleIdentifiers == {IDa, IDb, IDc}

\* C4: a 200/201 non-HTML response whose body is {"id": v},
\* {"pattern_file": {"id": v}} or {"pattern_id": v} makes CreateMesheryDesign
\* (either variant) return v and a nil error.
C4_ThreeShapesExtracted ==
    \A v \in SampleIdentifiers :
        (/\ EitherVariant
         /\ ResponseRead
         /\ Status2xxCreated
         /\ ~HTMLBody
         /\ call.resp.body \in {ShapeID(v), ShapePatternFileID(v), ShapePatternID(v)})
        => ReturnedID(v)

\* The two shapes of C4 the code does extract.
C4_TwoShapesExtracted ==
    \A v \in SampleIdentifiers :
        (/\ EitherVariant
         /\ ResponseRead
         /\ Status2xxCreated
         /\ call.resp.body \in {ShapeID(v), ShapePatternFileID(v)})
        => ReturnedID(v)

C4_TwoShapesWitness ==
    /\ EitherVariant
    /\ ResponseRead
    /\ call.resp.status = 201
    /\ call.resp.body = ShapePatternFileID(IDb)
    /\ ReturnedID(IDb)

\* a string under key of an object, or Missing
StringUnder(obj, key) ==
    IF obj.t = "object" /\ Lookup(obj, key).t = "string" THEN Lookup(obj, key) ELSE Missing

TopLevelID(body) == StringUnder(body, KeyID)
NestedID(body) == StringUnder(Lookup(body, KeyPatternFile), KeyID)
TopLevelPatternID(body) == StringUnder(body, KeyPatternID)

\* the body is JSON and no string lies under id, pattern_file.id or
\* pattern_id (for an array: under the id of its first element)
NoStringIdentifier(body) ==
    /\ body.t # "invalid"
    /\ TopLevelID(body) = Missing
    /\ NestedID(body) = Missing
    /\ TopLevelPatternID(body) = Missing
    /\ body.t = "array" /\ Len(body.kv) > 0 => TopLevelID(body.kv[1].v) = Missing

\* C5: in the lenient CreateMesheryDesign a 200/201 non-HTML body that is
\* JSON but carries no string identifier makes the call return an
\* "offline-mode-" identifier and a nil error.
C5_NoIdentifierDegrades ==
    (/\ Lenient
     /\ ResponseRead
     /\ Status2xxCreated
     /\ ~HTMLBody
     /\ NoStringIdentifier(call.resp.body))
    => ReturnedOfflineID

\* The part of C5 the code does keep: the bodies that are not decoded into
\* a map (arrays and scalars).
C5_NonObjectDegrades ==
    (/\ Lenient
     /\ ResponseRead
     /\ Status2xxCreated
     /\ ~HTMLBody
     /\ NoStringIdentifier(call.resp.body)
     /\ call.resp.body.t \notin {"object", "null"})
    => ReturnedOfflineID

C5_NonObjectWitness ==
    /\ Lenient
    /\ ResponseRead
    /\ Status2xxCreated
    /\ call.resp.body = JArr(<<>>)
    /\ ReturnedOfflineID

\* C6: in the lenient CreateMesheryDesign a response whose body holds
\* "<!DOCTYPE html>" or "<html" is an authentication redirect whatever its
\* status: the HTML check decides before the status check and before any
\* JSON parsing, and the call returns an "offline-mode-" identifier and nil.
C6_HTMLBodyDegrades ==
    (Lenient /\ ResponseRead /\ HTMLBody)
    => (/\ ReturnedOfflineID
        /\ Logged("Received HTML response instead of JSON - authentication failed")
        /\ ~Logged("Unexpected response code")
        /\ ~Logged("Failed to parse response JSON")
        /\ ~Logged("Successfully created Meshery design"))

\* C6's case: an HTML page answered with a status that is not 200/201.
C6_Witness ==
    /\ Lenient
    /\ ResponseRead
    /\ HTMLBody
    /\ call.resp.status = 500
    /\ call.resp.body.t = "invalid"
    /\ ReturnedOfflineID

\* C6's case where the body is JSON too: {"id": "<html"} answered with 200.
C6_WitnessJSON ==
    /\ Lenient
    /\ ResponseRead
    /\ call.resp.status = 200
    /\ call.resp.body = ShapeID(HTMLTag)
    /\ ReturnedOfflineID

\* C7: in the lenient CreateMesheryDesign a non-HTML response whose status
\* is neither 200 nor 201 yields an "offline-mode-" identifier and nil, and
\* its body is not parsed for an identifier, even if it is {"id": ...}.
C7_UnexpectedStatusDegrades ==
    (Lenient /\ ResponseRead /\ ~HTMLBody /\ ~Status2xxCreated)
    => (/\ ReturnedOfflineID
        /\ Logged("Unexpected response code")
        /\ ~Logged("Failed to parse response JSON")
        /\ ~Logged("Could not extract design ID from response")
        /\ ~Logged("Successfully created Meshery design"))

\* C7's case: {"id": "a1"} answered with 401.
C7_Witness ==
    /\ Lenient
    /\ ResponseRead
    /\ call.resp.status = 401
    /\ call.resp.body = ShapeID(IDa)
    /\ ReturnedOfflineID
    /\ ret.id # IDa

\* C7's case with a body whose parsing would not return: {} answered with 204.
C7_WitnessEmptyObject ==
    /\ Lenient
    /\ ResponseRead
    /\ call.resp.status = 204
    /\ call.resp.body = JObj(<<>>)
    /\ ReturnedOfflineID

\* how many of the three keys carry a non-empty string
CarriedCount(body) ==
    Cardinality({k \in {1, 2, 3} :
        LET v == CASE k = 1 -> TopLevelID(body) [] k = 2 -> NestedID(body)
                   [] k = 3 -> TopLevelPatternID(body)
        IN  v # Missing /\ v.s # <<>>})

\* the identifier the priority order id, pattern_file.id, pattern_id picks
PriorityPick(body) ==
    IF TopLevelID(body) # Missing THEN TopLevelID(body)
    ELSE IF NestedID(body) # Missing THEN NestedID(body)
    ELSE TopLevelPatternID(body)

\* C8: when a JSON object carries identifier strings under more than one of
\* the keys, CreateMesheryDesign returns the one of highest priority (id,
\* then pattern_file.id, then pattern_id); a lower-priority key is used only
\* when every higher-priority key yields no string.
C8_PriorityOrder ==
    (/\ EitherVariant
     /\ ResponseRead
     /\ Status2xxCreated
     /\ ~HTMLBody
     /\ call.resp.body.t = "object")
    => LET body == call.resp.body
       IN  /\ (CarriedCount(body) > 1 /\ PriorityPick(body).s # <<>>)
                => ReturnedID(PriorityPick(body).s)
           /\ (ReturnedID(IDb) /\ NestedID(body) = JStr(IDb))
                => TopLevelID(body) = Missing
           /\ (ReturnedID(IDc) /\ TopLevelPatternID(body) = JStr(IDc))
                => (TopLevelID(body) = Missing /\ NestedID(body) = Missing)

\* C8's case: pattern_file.id and pattern_id both carried, id not a string.
C8_Witness ==
    /\ EitherVariant
    /\ ResponseRead
    /\ Status2xxCreated
    /\ TopLevelID(call.resp.body) = Missing
    /\ NestedID(call.resp.body) = JStr(IDb)
    /\ TopLevelPatternID(call.resp.body) = JStr(IDc)
    /\ ReturnedID(IDb)

\* C8's case where the lowest-priority key is the one used.
C8_WitnessPatternID ==
    /\ EitherVariant
    /\ ResponseRead
    /\ Status2xxCreated
    /\ Lookup(call.resp.body, KeyID) = JNum
    /\ ReturnedID(IDc)

\* C9: a 200/201 body that is no JSON object but a JSON array makes
\* CreateMesheryDesign return the string id of the array's first element (an
\* identifier: a string that is not empty); later elements are never
\* consulted, so that without an id in the first element the call ends as
\* it does when no identifier is found; and the array parse comes only after
\* the object parse has failed, so that null, which decodes as a nil map,
\* is handled by the object branch (where the pattern_file assertion panics)
\* and not by the array branch.
C9_ArrayFirstElement ==
    (/\ EitherVariant
     /\ ResponseRead
     /\ Status2xxCreated
     /\ ~HTMLBody)
    => LET body == call.resp.body
       IN  /\ (/\ body.t = "array"
               /\ Len(body.kv) > 0
               /\ TopLevelID(body.kv[1].v) # Missing
               /\ TopLevelID(body.kv[1].v).s # <<>>)
                => ReturnedID(TopLevelID(body.kv[1].v).s)
           /\ (/\ body.t = "array"
               /\ Len(body.kv) > 0 => TopLevelID(body.kv[1].v) \in {Missing, JStr(<<>>)})
                => /\ pc = "returned"
                   /\ \A i \in 2..Len(body.kv) : TopLevelID(body.kv[i].v) # JStr(ret.id)
                   /\ IF call.op = "CreateMesheryDesign" THEN ReturnedOfflineID
                      ELSE ret.err = "ErrDecodingAPI" /\ ret.id = <<>>
           /\ body.t = "null" => pc = "panicked"

\* C9's case: two elements with different ids, the first one's returned.
C9_Witness ==
    /\ EitherVariant
    /\ ResponseRead
    /\ Status2xxCreated
    /\ call.resp.body.t = "array"
    /\ Len(call.resp.body.kv) = 2
    /\ TopLevelID(call.resp.body.kv[2].v) = JStr(IDb)
    /\ ReturnedID(IDa)

\* C9's case where only a later element carries an id.
C9_WitnessLaterElement ==
    /\ Lenient
    /\ ResponseRead
    /\ Status2xxCreated
    /\ call.resp.body.t = "array"
    /\ Len(call.resp.body.kv) = 2
    /\ TopLevelID(call.resp.body.kv[1].v) = Missing
    /\ TopLevelID(call.resp.body.kv[2].v) = JStr(IDb)
    /\ ReturnedOfflineID

(***************************************************************************)
(* Claims about the manifest collector                                     *)
(***************************************************************************)
\* c is the lower-case letter d or its upper-case form
SameLetter(c, d) ==
    \/ c = d
    \/ <<c, d>> \in {<<"Y","y">>, <<"A","a">>, <<"M","m">>, <<"L","l">>}

\* name ends in ext, whatever the case of its letters
EndsIn(name, ext) ==
    /\ Len(name) >= Len(ext)
    /\ \A j \in 1..Len(ext) : SameLetter(name[Len(name) - Len(ext) + j], ext[j])

\* the name ends, case-insensitively, in .yaml or .yml
IsManifestName(name) ==
    EndsIn(name, <<".","y","a","m","l">>) \/ EndsIn(name, <<".","y","m","l">>)

RECURSIVE NodesUnder(_, _)
\* every node below a directory, with its path
NodesUnder(path, node) ==
    UNION { {[path |-> JoinPath(path, node.children[i].name), node |-> node.children[i]]}
            \cup NodesUnder(JoinPath(path, node.children[i].name), node.children[i]) :
            i \in 1..Len(node.children) }

RECURSIVE RootLevelFrom(_, _, _)
\* the contents of the matching files directly in the root, in listing order
RootLevelFrom(path, children, i) ==
    IF i > Len(children) THEN <<>>
    ELSE (IF children[i].kind = "file" /\ IsManifestName(children[i].name)
          THEN <<ContentOf(JoinPath(path, children[i].name))>> ELSE <<>>)
         \o RootLevelFrom(path, children, i + 1)

RootLevelManifests == RootLevelFrom(ManifestRoot, fs.children, 1)

\* the contents of the matching files at any depth
AllManifests ==
    { ContentOf(n.path) : n \in { m \in NodesUnder(ManifestRoot, fs) :
                                     m.node.kind = "file" /\ IsManifestName(m.node.name) } }

Elements(seq) == { seq[i] : i \in 1..Len(seq) }
NoRepeats(seq) == Cardinality(Elements(seq)) = Len(seq)

\* seq with the elements outside keep removed
RECURSIVE Restrict(_, _)
Restrict(seq, keep) ==
    IF seq = <<>> THEN <<>>
    ELSE (IF Head(seq) \in keep THEN <<Head(seq)>> ELSE <<>>) \o Restrict(Tail(seq), keep)

Collected == pc # "ready" /\ call.op = "getManifestContents" /\ fs.kind = "dir"

\* what a successful collection returns, as C10 states it
CollectedExactly ==
    (Collected /\ ret.err = NoError)
    => IF call.args.recursive
       THEN /\ Elements(ret.manifests) = AllManifests
            /\ NoRepeats(ret.manifests)
            /\ Restrict(ret.manifests, Elements(RootLevelManifests)) = RootLevelManifests
       ELSE ret.manifests = RootLevelManifests

\* the root can be listed and each of its matching files can be read
RootLevelReadable ==
    /\ fs.readable
    /\ \A i \in 1..Len(fs.children) :
          (fs.children[i].kind = "file" /\ IsManifestName(fs.children[i].name))
              => fs.children[i].readable

\* every directory can be listed and every matching file can be read
AllReadable ==
    /\ fs.readable
    /\ \A n \in NodesUnder(ManifestRoot, fs) :
          (n.node.kind = "dir" \/ IsManifestName(n.node.name)) => n.node.readable

\* the directories directly in the root can be listed
NestedDirsReadable ==
    \A i \in 1..Len(fs.children) : fs.children[i].kind = "dir" => fs.children[i].readable

\* C10: for every directory tree, getManifestContents with recursive=false
\* returns the contents of exactly the files directly in the root whose
\* name ends (case-insensitively) in .yaml or .yml, in traversal order,
\* skipping nested directories without error; with recursive=true it returns
\* those plus every matching file of every subdirectory, and never a
\* non-matching file.
C10_CollectsExactly ==
    /\ CollectedExactly
    /\ (Collected /\ ~call.args.recursive /\ RootLevelReadable /\ RootLevelManifests # <<>>)
         => ret.err = NoError
    /\ (Collected /\ call.args.recursive /\ AllReadable /\ AllManifests # {})
         => ret.err = NoError

\* The part of C10 the code does keep: the same, for trees whose nested
\* directories can be listed.
C10_CollectsExactlyListable ==
    /\ CollectedExactly
    /\ (Collected /\ ~call.args.recursive /\ RootLevelReadable /\ NestedDirsReadable
          /\ RootLevelManifests # <<>>)
         => ret.err = NoError
    /\ (Collected /\ call.args.recursive /\ AllReadable /\ AllManifests # {})
         => ret.err = NoError

C10_ListableWitness ==
    /\ Collected
    /\ ~call.args.recursive
    /\ Len(RootLevelManifests) = 2
    /\ Cardinality(AllManifests) > 3
    /\ ret.err = NoError
    /\ ret.manifests = RootLevelManifests

C10_ListableWitnessRecursive ==
    /\ Collected
    /\ call.args.recursive
    /\ Len(RootLevelManifests) = 2
    /\ Cardinality(AllManifests) > 3
    /\ ret.err = NoError
    /\ Len(ret.manifests) = Cardinality(AllManifests)

\* the path was handed to getManifestContents and the call is over
CollectorCalled == pc # "ready" /\ call.op = "getManifestContents"

\* the traversal the call asks for meets no matching file
NoMatchingFile ==
    /\ fs.kind = "dir"
    /\ IF call.args.recursive THEN AllManifests = {} ELSE RootLevelManifests = <<>>

\* the call failed with a ManifestReadError and handed back no manifest
ManifestReadError == ret.err = "ErrReadingManifestFile" /\ ret.manifests = <<>>

\* C11: getManifestContents fails with a ManifestReadError, returning no
\* manifests, when the path does not exist, when the path (a file or a
\* directory) cannot be read, and when it is a directory whose traversal
\* meets no matching file: also a non-recursive traversal of a directory
\* whose only YAML files are in subdirectories.
C11_ManifestReadError ==
    CollectorCalled =>
        /\ fs.kind = "missing" => ManifestReadError
        /\ (fs.kind \in {"file", "dir"} /\ ~fs.readable) => ManifestReadError
        /\ NoMatchingFile => ManifestReadError
        /\ pc = "returned"

\* a non-recursive call on a readable tree whose YAML files are all nested
C11_Witness ==
    /\ CollectorCalled
    /\ ~call.args.recursive
    /\ AllReadable
    /\ RootLevelManifests = <<>>
    /\ Cardinality(AllManifests) >= 2
    /\ ManifestReadError

\* the path does not exist
C11_WitnessMissing == CollectorCalled /\ fs.kind = "missing" /\ ManifestReadError

(***************************************************************************)
(* Claims about the submission request and the dispatch body               *)
(***************************************************************************)
\* {apiBaseURL}{snapshotEndpointPath}: the configured endpoint path, or
\* /api/pattern/import when none is configured
SubmissionURL ==
    MesheryAPIBaseURL
    \o (IF SnapshotEndpoint = <<>>
        THEN <<"/","a","p","i","/","p","a","t","t","e","r","n","/","i","m","p","o","r","t">>
        ELSE SnapshotEndpoint)

\* the API base URL is one an HTTP client can send to
BaseURLIsHTTP ==
    \E n \in {7, 8} :
        /\ Len(MesheryAPIBaseURL) >= n
        /\ SubSeq(MesheryAPIBaseURL, 1, n)
             \in { <<"h","t","t","p",":","/","/">>, <<"h","t","t","p","s",":","/","/">> }

\* exactly one request was issued: a POST to the submission URL
OnePOST == Len(net) = 1 /\ net[1].method = "POST" /\ net[1].url = SubmissionURL

\* C18: with no provider token configured CreateMesheryDesign still issues
\* the submission POST, exactly once, to {apiBaseURL}{snapshotEndpointPath},
\* with no Cookie header (and logs the warning); with a token configured the
\* one POST carries Cookie: token=<T>;meshery-provider=Meshery.  The API base
\* URL is an http or https URL.
C18_PostWithOrWithoutToken ==
    (EitherVariant /\ BaseURLIsHTTP) =>
        /\ OnePOST
        /\ ProviderToken = <<>> =>
              /\ net[1].cookie = <<>>
              /\ Logged("No Meshery token provided, authentication will likely fail")
        /\ ProviderToken # <<>> =>
              net[1].cookie = <<"t","o","k","e","n","=">> \o ProviderToken
                              \o <<";","m","e","s","h","e","r","y","-","p","r","o","v","i",
                                   "d","e","r","=","M","e","s","h","e","r","y">>

\* a call without a token whose POST went out and was answered
C18_Witness ==
    /\ Lenient
    /\ BaseURLIsHTTP
    /\ ProviderToken = <<>>
    /\ OnePOST
    /\ net[1].cookie = <<>>
    /\ call.resp.do = "ok"

\* a call with a token
C18_WitnessToken ==
    /\ Lenient
    /\ BaseURLIsHTTP
    /\ ProviderToken # <<>>
    /\ OnePOST
    /\ net[1].cookie # <<>>

TriggerCalled == pc # "ready" /\ call.op \in {"GenerateSnapshot", "GenerateSnapshotStrict"}

\* the default asset location, templated from the identifier
TemplatedAssetLocation(id) ==
    <<"h","t","t","p","s",":","/","/","r","a","w",".","g","i","t","h","u","b","u","s","e","r",
      "c","o","n","t","e","n","t",".","c","o","m","/","l","a","y","e","r","5","l","a","b","s",
      "/","m","e","s","h","e","r","y","-","e","x","t","e","n","s","i","o","n","s","-","p","a",
      "c","k","a","g","e","s","/","m","a","s","t","e","r","/","a","c","t","i","o","n","-","a",
      "s","s","e","t","s","/","k","u","b","e","c","t","l","-","p","l","u","g","i","n","-","a",
      "s","s","e","t","s","/">> \o id \o <<".","p","n","g">>

\* C20: when GenerateSnapshot is called with an empty assetLocation, the
\* inputs map of the dispatch body is exactly {designID: the identifier,
\* assetLocation: the default URL templated from that identifier}; a
\* non-empty assetLocation is sent unchanged.
C20_DispatchInputs ==
    (TriggerCalled /\ net # <<>>) =>
        /\ Len(net) = 1
        /\ DOMAIN net[1].body.inputs = {"designID", "assetLocation"}
        /\ net[1].body.inputs.designID = call.args.designID
        /\ net[1].body.inputs.assetLocation =
              (IF call.args.assetLocation = <<>>
               THEN TemplatedAssetLocation(call.args.designID)
               ELSE call.args.assetLocation)

\* a dispatch sent for a call that gave no asset location
C20_Witness ==
    /\ TriggerCalled
    /\ call.args.assetLocation = <<>>
    /\ call.args.designID # <<>>
    /\ Len(net) = 1
    /\ net[1].body.inputs.assetLocation = TemplatedAssetLocation(call.args.designID)

\* a dispatch sent for a call that gave one
C20_WitnessGiven ==
    /\ TriggerCalled
    /\ call.args.assetLocation # <<>>
    /\ Len(net) = 1
    /\ net[1].body.inputs.assetLocation = call.args.assetLocation

(***************************************************************************)
(* Claims about the direct download                                        *)
(***************************************************************************)
DownloadCalled == pc # "ready" /\ call.op = "DownloadPatternAsImage"

\* the URL of the GET, and whether a request to it can be built and sent
DownloadTarget ==
    MesheryAPIBaseURL
    \o <<"/","a","p","i","/","p","a","t","t","e","r","n","/","d","o","w","n","l","o","a","d","/">>
    \o call.args.designID \o <<"/","k","a","n","v","a","s">>

RequestCannotBeBuilt == \E i \in 1..Len(DownloadTarget) : DownloadTarget[i] \in {"\t", "\n", "\r"}

\* the call got as far as the GET: the identifier is not an offline one and
\* there is a provider token
GETAttempted ==
    /\ ~StartsWithOfflineMode(call.args.designID)
    /\ ProviderToken # <<>>
    /\ ~RequestCannotBeBuilt

GETFailed == GETAttempted /\ (~BaseURLIsHTTP \/ call.resp.do = "error")

BodyCannotBeRead == GETAttempted /\ ~GETFailed /\ call.resp.read = "error"

BodyRead == GETAttempted /\ ~GETFailed /\ call.resp.read = "ok"

\* one of the five conditions under which the download degrades
DownloadDegrades ==
    \/ StartsWithOfflineMode(call.args.designID)
    \/ ProviderToken = <<>>
    \/ GETFailed
    \/ BodyRead /\ HTMLBody
    \/ BodyRead /\ call.resp.status # 200

OutputCannotBeWritten == call.args.outputFile = <<>> \/ ~world.outWritable

\* C19: DownloadPatternAsImage degrades as submission does: for an
\* offline-prefixed identifier, an empty provider token, a transport failure
\* of the GET, an HTML response body, or a response status other than 200 it
\* writes a placeholder file to the output path and returns success; it
\* returns an error only when the request cannot be built, the body cannot
\* be read, or the output file cannot be written.
C19_DownloadDegrades ==
    DownloadCalled =>
        /\ pc = "returned"
        /\ (DownloadDegrades /\ ~OutputCannotBeWritten) =>
              /\ ret.err = NoError
              /\ outFile.kind = "placeholder"
              /\ outFile.designID = call.args.designID
        /\ ret.err # NoError =>
              \/ RequestCannotBeBuilt
              \/ BodyCannotBeRead
              \/ OutputCannotBeWritten

\* a GET answered with a status other than 200 and a body that is not HTML
C19_Witness ==
    /\ DownloadCalled
    /\ BodyRead
    /\ ~HTMLBody
    /\ call.resp.status = 404
    /\ ~OutputCannotBeWritten
    /\ ret.err = NoError
    /\ outFile.kind = "placeholder"
    /\ Len(net) = 1

\* a GET whose body could not be read
C19_WitnessReadError ==
    /\ DownloadCalled
    /\ BodyCannotBeRead
    /\ ~OutputCannotBeWritten
    /\ ret.err # NoError

(***************************************************************************)
(* The run of the command: the email check.                                *)
(***************************************************************************)
\* kanvasSnapshotRunE has been entered
RunEEntered == steps # <<>> /\ steps[1] = "kanvasSnapshotRunE"

\* the value given with -e ("" when the flag is not passed)
EmailGiven == IF world.args.email = <<>> THEN <<>> ELSE world.args.email[1]

\* local@domain.tld: a non-empty local part of lower-case letters, digits
\* and ._%+-, a non-empty domain of lower-case letters, digits, dots and
\* hyphens, and a top-level name of two or more lower-case letters
WellFormedEmail(e) ==
    \E n \in 1..Len(e), m \in 2..Len(e) :
        /\ n + m + 3 <= Len(e)
        /\ e = SubSeq(e, 1, n) \o <<"@">> \o SubSeq(e, n + 2, n + m) \o <<".">>
                 \o SubSeq(e, n + m + 2, Len(e))
        /\ \A i \in 1..n : e[i] \in EmailLocalChars
        /\ \A i \in (n + 2)..(n + m) : e[i] \in EmailDomainChars
        /\ \A i \in (n + m + 2)..Len(e) : e[i] \in LowerLetters

\* the run has ended with err returned by kanvasSnapshotRunE
RunFailedWith(err) == pc = "exited" /\ run.err = err /\ exitCode = ExitError

\* C12: a non-empty email that fails validation aborts the run with
\* ErrInvalidEmailFormat before any manifest is read (getManifestContents is
\* never called) and before any HTTP request is issued; an empty email is
\* not validated and the run goes on to collect the manifests.
C12_InvalidEmailAborts ==
    RunEEntered =>
        /\ (EmailGiven # <<>> /\ ~WellFormedEmail(EmailGiven)) =>
              /\ RunFailedWith("ErrInvalidEmailFormat")
              /\ steps = <<"kanvasSnapshotRunE">>
              /\ call = NoCall
              /\ net = <<>>
        /\ EmailGiven = <<>> =>
              /\ run.err # "ErrInvalidEmailFormat"
              /\ pc = "collect" \/ (Len(steps) >= 2 /\ steps[2] = "getManifestContents")
        /\ (EmailGiven # <<>> /\ WellFormedEmail(EmailGiven)) =>
              run.err # "ErrInvalidEmailFormat"

\* a run given A@x.io has ended with the email error
C12_Witness ==
    /\ RunEEntered
    /\ EmailGiven = <<"A","@","x",".","i","o">>
    /\ RunFailedWith("ErrInvalidEmailFormat")
    /\ net = <<>>

\* a run given no email has submitted its manifests
C12_WitnessEmpty ==
    /\ RunEEntered
    /\ EmailGiven = <<>>
    /\ Len(steps) >= 3
    /\ net # <<>>

(***************************************************************************)
(* The run of the command: the steps after kanvasSnapshotRunE is entered.  *)
(***************************************************************************)
\* the operations invoked after the email check, in order
Invoked == SubSeq(steps, 2, Len(steps))

\* the operations invoked after CreateMesheryDesign
AfterSubmission == SubSeq(steps, 4, Len(steps))

\* the requests of the run, by kind: the dispatch is the POST that carries
\* an Authorization header, the download the GET
SubmissionPOSTs == { i \in 1..Len(net) : net[i].method = "POST" /\ net[i].auth = <<>> }
DispatchPOSTs == { i \in 1..Len(net) : net[i].method = "POST" /\ net[i].auth # <<>> }
DownloadGETs == { i \in 1..Len(net) : net[i].method = "GET" }

\* CreateMesheryDesign was called and returned an identifier without error
SubmissionSucceeded ==
    /\ RunEEntered
    /\ Len(steps) >= 3
    /\ steps[3] = "CreateMesheryDesign"
    /\ pc = "post" \/ (pc = "exited" /\ exitCode # ExitPanic
                                     /\ run.err # "ErrCreatingMesheryDesign")

\* C13: after a successful submission exactly one branch is taken: with the
\* download flag the run downloads and never triggers the workflow (also
\* when the skip flag is set as well); otherwise with the skip flag it does
\* neither; otherwise it triggers the workflow, exactly once.
C13_OneBranchAfterSubmission ==
    SubmissionSucceeded =>
        /\ pc = "post" => AfterSubmission = <<>>
        /\ pc = "exited" =>
              /\ world.args.download =>
                    /\ AfterSubmission = <<"DownloadPatternAsImage">>
                    /\ DispatchPOSTs = {}
              /\ (~world.args.download /\ world.args.skip) =>
                    /\ AfterSubmission = <<>>
                    /\ DispatchPOSTs = {}
                    /\ DownloadGETs = {}
                    /\ exitCode = ExitOK
              /\ (~world.args.download /\ ~world.args.skip) =>
                    /\ AfterSubmission = <<"GenerateSnapshot">>
                    /\ DownloadGETs = {}
                    /\ Cardinality(DispatchPOSTs) <= 1

\* a run with -d and -s has downloaded
C13_Witness ==
    /\ SubmissionSucceeded
    /\ pc = "exited"
    /\ world.args.download
    /\ world.args.skip
    /\ AfterSubmission = <<"DownloadPatternAsImage">>

\* a run with -s alone has ended after the submission
C13_WitnessSkip ==
    /\ SubmissionSucceeded
    /\ pc = "exited"
    /\ ~world.args.download
    /\ world.args.skip
    /\ AfterSubmission = <<>>

\* a run with neither flag has dispatched the workflow
C13_WitnessTrigger ==
    /\ SubmissionSucceeded
    /\ pc = "exited"
    /\ ~world.args.download
    /\ ~world.args.skip
    /\ Cardinality(DispatchPOSTs) = 1

\* s is the first n elements of t, for some n
IsPrefix(s, t) == Len(s) <= Len(t) /\ s = SubSeq(t, 1, Len(s))

\* the path given with -f is missing or unreadable, or the traversal asked
\* for meets no matching file
CollectionFails ==
    \/ fs.kind = "missing"
    \/ ~fs.readable
    \/ /\ fs.kind = "dir"
       /\ IF world.args.recursive THEN AllManifests = {} ELSE RootLevelManifests = <<>>

\* a run whose collection failed
C14_WitnessNoFiles ==
    /\ pc = "exited"
    /\ CollectionFails
    /\ fs.kind = "dir"
    /\ Invoked = <<"getManifestContents">>

\* a run whose submission returned an error
C14_WitnessSubmitError ==
    /\ pc = "exited"
    /\ run.err = "ErrCreatingMesheryDesign"
    /\ Invoked = <<"getManifestContents", "CreateMesheryDesign">>
    /\ Len(net) = 1

\* a run that has gone through all three steps, with two requests
C14_Witness ==
    /\ pc = "exited"
    /\ Len(Invoked) = 3
    /\ Len(net) = 2
    /\ Cardinality(SubmissionPOSTs) = 1

\* C14: the steps of a run are ordered collect, submit, then at most one
\* post-submission step, each invoked at most once and none re-entered;
\* submission is never invoked when collection failed, and neither the
\* trigger nor the download when submission returned an error; no HTTP
\* request (the submission POST, the download GET, the dispatch POST) is
\* issued more than once in a run.
C14_StepOrder ==
    /\ \/ steps = <<>>
       \/ /\ RunEEntered
          /\ \E last \in {"DownloadPatternAsImage", "GenerateSnapshot"} :
                IsPrefix(Invoked, <<"getManifestContents", "CreateMesheryDesign", last>>)
    /\ (Len(steps) >= 2 /\ CollectionFails) =>
          /\ Invoked = <<"getManifestContents">>
          /\ net = <<>>
    /\ (Len(steps) >= 3 /\ ~SubmissionSucceeded) =>
          Invoked = <<"getManifestContents", "CreateMesheryDesign">>
    /\ Cardinality(SubmissionPOSTs) <= 1
    /\ Cardinality(DownloadGETs) <= 1
    /\ Cardinality(DispatchPOSTs) <= 1
    /\ Len(net) <= 2
    /\ DownloadGETs = {} \/ DispatchPOSTs = {}
    /\ \A i \in DownloadGETs \cup DispatchPOSTs : \E j \in SubmissionPOSTs : j < i

(***************************************************************************)
(* The run of the command: the workflow trigger.                           *)
(***************************************************************************)
\* the run has ended in the step that calls GenerateSnapshot
TriggerStepDone ==
    /\ pc = "exited"
    /\ RunEEntered
    /\ Invoked = <<"getManifestContents", "CreateMesheryDesign", "GenerateSnapshot">>
    /\ call.op = "GenerateSnapshot"

\* the identifier is not an offline one and there is a GitHub token
DispatchDue ==
    /\ ~(Len(call.args.designID) >= Len(OfflinePrefix)
         /\ SubSeq(call.args.designID, 1, Len(OfflinePrefix)) = OfflinePrefix)
    /\ call.args.token # <<>>

\* --repo-owner, --repo-name or --workflow holds a character that no URL
\* may hold, so that http.NewRequest fails
DispatchCannotBeBuilt ==
    \E v \in {world.args.repoOwner, world.args.repoName, world.args.workflow} :
        v # <<>> /\ \E i \in 1..Len(v[1]) : v[1][i] \in {"\t", "\n", "\r"}

DispatchCannotBeSent == call.resp.do = "error"

DispatchAccepted == call.resp.do = "ok" /\ call.resp.status \in {200, 204}

\* C15: GenerateSnapshot returns an error exactly when, for a non-offline
\* identifier and a non-empty token, the dispatch request cannot be built or
\* sent or the response status is neither 200 nor 204; every such error
\* makes the run fail (kanvasSnapshotRunE returns ErrGeneratingSnapshot and
\* the exit code is 1), and a 200 or 204 response makes the run succeed with
\* exit code 0.
C15_TriggerErrorFailsRun ==
    TriggerStepDone =>
        /\ ret.err # NoError <=>
              /\ DispatchDue
              /\ DispatchCannotBeBuilt \/ DispatchCannotBeSent \/ ~DispatchAccepted
        /\ ret.err # NoError => RunFailedWith("ErrGeneratingSnapshot")
        /\ (DispatchDue /\ ~DispatchCannotBeBuilt /\ DispatchAccepted) =>
              /\ run.err = NoError
              /\ exitCode = ExitOK
              /\ Cardinality(DispatchPOSTs) = 1

\* a dispatch answered 200 ends the run with exit code 0
C15_Witness ==
    /\ TriggerStepDone
    /\ DispatchDue
    /\ call.resp.do = "ok"
    /\ call.resp.status = 200
    /\ exitCode = ExitOK
    /\ Cardinality(DispatchPOSTs) = 1

\* a dispatch answered with another status ends the run with exit code 1
C15_WitnessRejected ==
    /\ TriggerStepDone
    /\ DispatchDue
    /\ call.resp.do = "ok"
    /\ call.resp.status \notin {200, 204}
    /\ Cardinality(DispatchPOSTs) = 1
    /\ RunFailedWith("ErrGeneratingSnapshot")

\* a dispatch that cannot be built ends the run with exit code 1
C15_WitnessNotBuilt ==
    /\ TriggerStepDone
    /\ DispatchDue
    /\ DispatchCannotBeBuilt
    /\ DispatchPOSTs = {}
    /\ RunFailedWith("ErrGeneratingSnapshot")

\* a dispatch that cannot be sent ends the run with exit code 1
C15_WitnessNotSent ==
    /\ TriggerStepDone
    /\ DispatchDue
    /\ DispatchCannotBeSent
    /\ RunFailedWith("ErrGeneratingSnapshot")

(***************************************************************************)
(* The run of the command: the provider token.                             *)
(***************************************************************************)
\* the value of MESHERY_TOKEN in the environment of the process
EnvMesheryToken == Getenv(world.environ, envMesheryToken)

\* C16: when MESHERY_TOKEN is set in the environment and -t is not passed,
\* the provider token in effect when the submission request is built is the
\* environment value, and the submission POST carries the header
\* Cookie: token=<T>;meshery-provider=Meshery.
C16_EnvTokenInCookie ==
    (EnvMesheryToken # <<>> /\ world.args.token = <<>>) =>
        /\ pc = "submit" => ProviderToken = EnvMesheryToken
        /\ \A i \in SubmissionPOSTs :
              net[i].cookie = <<"t","o","k","e","n","=">> \o EnvMesheryToken
                              \o <<";","m","e","s","h","e","r","y","-","p","r","o","v","i",
                                   "d","e","r","=","M","e","s","h","e","r","y">>

(***************************************************************************)
(* The start of the process: the environment and the .env file.            *)
(***************************************************************************)
\* main is past loadEnvFile
EnvFileLoaded ==
    /\ world.started
    /\ world.configFile.state # "broken"
    /\ pc \notin {"main", "setEnvironmentVariables", "loadEnvFile"}

\* the three variables of main that are read from the environment, each
\* with the name of its environment variable
EnvBacked ==
    { [field |-> "providerToken", key |-> <<"M","E","S","H","E","R","Y","_","T","O","K","E","N">>],
      [field |-> "mesheryCloudAPIBaseURL",
       key |-> <<"M","E","S","H","E","R","Y","_","C","L","O","U","D","_","U","R","L">>],
      [field |-> "workflowAccessToken", key |-> <<"G","I","T","H","U","B","_","T","O","K","E","N">>] }

\* the value the environment of the process gives the variable named key
EnvValue(key) ==
    IF \E i \in 1..Len(world.environ) : world.environ[i].key = key
    THEN LET i == CHOOSE j \in 1..Len(world.environ) : world.environ[j].key = key
         IN  world.environ[i].value
    ELSE <<>>

\* some line of the .env file names the variable key
DotEnvNames(key) ==
    /\ world.dotenv.state = "file"
    /\ \E i \in 1..Len(world.dotenv.lines) :
          \E a \in 0..Len(world.dotenv.lines[i]) :
              Len(world.dotenv.lines[i]) >= a + Len(key)
              /\ SubSeq(world.dotenv.lines[i], a + 1, a + Len(key)) = key

\* C17: a value of the .env file is only a fallback: for each of
\* MESHERY_TOKEN, MESHERY_CLOUD_URL and GITHUB_TOKEN, after loadEnvFile the
\* variable differs from the value of the environment only if that value is
\* empty and the .env file names the variable; a non-empty value of the
\* environment is never overridden, and a missing or unreadable .env file
\* changes nothing.
C17_DotEnvIsFallback ==
    EnvFileLoaded =>
        \A v \in EnvBacked :
            /\ EnvValue(v.key) # <<>> => mainVars[v.field] = EnvValue(v.key)
            /\ world.dotenv.state # "file" => mainVars[v.field] = EnvValue(v.key)
            /\ mainVars[v.field] # EnvValue(v.key) => DotEnvNames(v.key)

\* MESHERY_TOKEN is in the environment and in .env, GITHUB_TOKEN in .env
\* alone: the first keeps the value of the environment, the second takes
\* the value of .env
C17_Witness ==
    /\ EnvFileLoaded
    /\ world.dotenv = [state |-> "file", lines |-> DotEnvQuoted]
    /\ EnvValue(<<"M","E","S","H","E","R","Y","_","T","O","K","E","N">>) = <<"m","t","k">>
    /\ EnvValue(<<"G","I","T","H","U","B","_","T","O","K","E","N">>) = <<>>
    /\ mainVars.providerToken = <<"m","t","k">>
    /\ mainVars.workflowAccessToken = <<"d","o","t","-","g">>
    /\ mainVars.mesheryCloudAPIBaseURL = <<"h","t","t","p","s",":","/","/","d">>

\* no .env file: the variables hold the values of the environment
C17_WitnessMissing ==
    /\ EnvFileLoaded
    /\ world.dotenv.state = "missing"
    /\ mainVars.providerToken = <<"m","t","k">>
    /\ mainVars.workflowAccessToken = <<"g","h","p","_","1">>

\* of two assignments in .env the first non-empty one is taken
C17_WitnessRepeated ==
    /\ EnvFileLoaded
    /\ world.dotenv = [state |-> "file", lines |-> DotEnvRepeated]
    /\ world.environ = <<>>
    /\ mainVars.providerToken = <<"s","e","c","o","n","d">>
    /\ mainVars.workflowAccessToken = <<"a","=","b">>

(***************************************************************************)
(* generateDummyID called on its own, several times as the clock runs.     *)
(* steps holds the calls made so far: the name, the second of the call and *)
(* the identifier returned.                                                *)
(***************************************************************************)
MaxDummyCalls == 2

SampleDummyNames ==
    { <<>>, <<"m","y"," ","a","p","p">>, <<"w","e","b">>, <<" ","a"," "," ","b">> }

InitDummyID ==
    /\ NoProcess
    /\ now \in 0..MaxClock
    /\ pc = "ready"
    /\ call = NoCall
    /\ ret = NoRet
    /\ net = <<>>
    /\ logs = <<>>
    /\ fs = EmptyDir
    /\ ProviderToken = <<>>
    /\ MesheryAPIBaseURL = <<>>
    /\ SnapshotEndpoint = <<>>
    /\ repoOwner = <<>>
    /\ repoName = <<>>
    /\ workflowID = <<>>

CallGenerateDummyID ==
    /\ pc = "ready"
    /\ Len(steps) < MaxDummyCalls
    /\ \E name \in SampleDummyNames :
          LET id == generateDummyID(name, now)
          IN  /\ call' = [op |-> "generateDummyID", args |-> [name |-> name],
                          resp |-> Response("none", "none", "none", 0, <<>>)]
              /\ ret' = [kind |-> "return", id |-> id]
              /\ steps' = Append(steps, [name |-> name, at |-> now, id |-> id])
    /\ UNCHANGED <<handles, now, pc, net, logs, fs, globals, world, mainVars, flags, run, exitCode,
                   outFile>>

NextDummyID ==
    \/ Tick
    \/ CallGenerateDummyID

SpecDummyID == InitDummyID /\ [][NextDummyID]_vars

\* the name with every space replaced by a hyphen, "design" for no name
Hyphenated(name, safe) ==
    IF name = <<>> THEN safe = <<"d","e","s","i","g","n">>
    ELSE /\ Len(safe) = Len(name)
         /\ \A i \in 1..Len(name) :
               safe[i] = (IF name[i] = " " THEN "-" ELSE name[i])

\* id is the offline prefix, the hyphenated name, a hyphen and 14 digits
OfflineIDShape(name, id) ==
    LET p == Len(OfflinePrefix)
        n == Len(id) - p - 15
    IN  /\ n >= 1
        /\ SubSeq(id, 1, p) = <<"o","f","f","l","i","n","e","-","m","o","d","e","-">>
        /\ Hyphenated(name, SubSeq(id, p + 1, p + n))
        /\ id[p + n + 1] = "-"
        /\ \A i \in (p + n + 2)..Len(id) :
              id[i] \in {"0", "1", "2", "3", "4", "5", "6", "7", "8", "9"}

\* C21: generateDummyID is a function of the name and the current second
\* only: every result is "offline-mode-", the name with each space replaced
\* by a hyphen ("design" for the empty name), "-" and a 14-digit timestamp
\* of second resolution; two calls with the same name in the same second
\* return the same identifier, and calls in different seconds do not.
C21_DummyIDOfNameAndSecond ==
    /\ \A i \in 1..Len(steps) : OfflineIDShape(steps[i].name, steps[i].id)
    /\ \A i, j \in 1..Len(steps) :
          /\ (steps[i].name = steps[j].name /\ steps[i].at = steps[j].at)
                => steps[i].id = steps[j].id
          /\ steps[i].at # steps[j].at => steps[i].id # steps[j].id

\* two calls for "my app" in the same second gave the same identifier
C21_Witness ==
    /\ Len(steps) = 2
    /\ steps[1].name = <<"m","y"," ","a","p","p">>
    /\ steps[2].name = steps[1].name
    /\ steps[1].at = steps[2].at
    /\ steps[1].id = steps[2].id
    /\ steps[1].id = <<"o","f","f","l","i","n","e","-","m","o","d","e","-","m","y","-","a","p","p","-",
                       "2","0","2","6","1","1","0","2","1","5","0","4","0","1">>

\* two calls for the empty name, a second apart
C21_WitnessLater ==
    /\ Len(steps) = 2
    /\ steps[1].name = <<>>
    /\ steps[2].name = <<>>
    /\ steps[2].at = steps[1].at + 1
    /\ steps[1].id # steps[2].id

(***************************************************************************)
(* The run of the command: response bodies and the output file.            *)
(***************************************************************************)
\* the handle opened by event i is closed by a later event of the same
\* operation
ClosedLater(i) ==
    \E j \in (i + 1)..Len(handles) :
        /\ handles[j].op = handles[i].op
        /\ handles[j].handle = handles[i].handle
        /\ handles[j].event = "close"

\* the operation called last was answered: its request went out and
\* client.Do returned a response
LastCallAnswered ==
    /\ call.op \in {"CreateMesheryDesign", "GenerateSnapshot", "DownloadPatternAsImage"}
    /\ ret.sent # <<>>
    /\ call.resp.do = "ok"

Opened(op, handle) ==
    \E i \in 1..Len(handles) :
        handles[i] = [op |-> op, handle |-> handle, event |-> "open"]

C22_WitnessFile ==
    /\ pc = "exited"
    /\ outFile.kind = "pattern"
    /\ Len(handles) = 6
    /\ handles[5] = [op |-> "DownloadPatternAsImage", handle |-> "file", event |-> "close"]
    /\ handles[6] = [op |-> "DownloadPatternAsImage", handle |-> "body", event |-> "close"]

\* a submission answered 500 degraded to an offline identifier; the body
\* was opened and closed
C22_WitnessDegraded ==
    /\ pc = "post"
    /\ call.resp.status = 500
    /\ SubSeq(run.designID, 1, 8) = <<"o","f","f","l","i","n","e","-">>
    /\ Opened("CreateMesheryDesign", "body")
    /\ ClosedLater(1)

\* the submitter panicked on the answer: its body was closed all the same
C22_WitnessPanic ==
    /\ exitCode = ExitPanic
    /\ Opened("CreateMesheryDesign", "body")
    /\ ClosedLater(1)

\* a rejected dispatch: the body of the answer was closed
C22_WitnessDispatch ==
    /\ pc = "exited"
    /\ run.err = "ErrGeneratingSnapshot"
    /\ call.resp.do = "ok"
    /\ Opened("GenerateSnapshot", "body")
    /\ ClosedLater(Len(handles) - 1)

(***************************************************************************)
(* The run of the command: the default of the API base URL.                *)
(***************************************************************************)
AnnouncedDefaultURL ==
    <<"h","t","t","p",":","/","/","l","o","c","a","l","h","o","s","t",":","9","0","8","1">>

\* C23: when no --meshery-url is given, so that the API base URL is empty
\* when the command runs, the base URL of the submission POST is
\* http://localhost:9081, the default announced by the help of the flag and
\* by the warning logged at run time.
C23_DefaultBaseURL ==
    (world.started /\ world.args.url = <<>>) =>
        \A i \in SubmissionPOSTs :
            /\ Len(net[i].url) > Len(AnnouncedDefaultURL)
            /\ SubSeq(net[i].url, 1, Len(AnnouncedDefaultURL)) = AnnouncedDefaultURL
            /\ net[i].url[Len(AnnouncedDefaultURL) + 1] = "/"

(***************************************************************************)
(* The run of the command: the branch of the dispatch.                     *)
(***************************************************************************)
\* C25: the target branch (ref) in the body of the workflow dispatch is the
\* value of --branch when the flag is given, and master when it is not.
C25_RefIsBranchFlag ==
    world.started =>
        \A i \in DispatchPOSTs :
            net[i].body.ref = (IF world.args.branch = <<>> THEN <<"m","a","s","t","e","r">>
                               ELSE world.args.branch[1])

(***************************************************************************)
(* isValidEmail called on its own, on every text of up to MaxEmailLen      *)
(* characters of EmailAlphabet and on the examples of its documentation.   *)
(* flags.email is the text, ret.ok the answer.                             *)
(***************************************************************************)
MaxEmailLen == 6

EmailAlphabet == {"a", "1", "@", ".", "_"}

EmailExamples ==
    { <<"u","s","e","r","@","e","x","a","m","p","l","e",".","c","o","m">>,
      <<"n","o","t","-","a","n","-","e","m","a","i","l">>,
      <<"U","s","e","r","@","e","x","a","m","p","l","e",".","c","o","m">>,
      <<"a","+","b","%","c","@","x","-","y",".","z",".","i","o">>,
      <<"a"," ","b","@","x",".","i","o">> }

EmailTexts == UNION { [1..n -> EmailAlphabet] : n \in 0..MaxEmailLen } \cup EmailExamples

InitEmail ==
    /\ now = 0
    /\ pc = "ready"
    /\ call = NoCall
    /\ ret = NoRet
    /\ net = <<>>
    /\ logs = <<>>
    /\ fs = EmptyDir
    /\ ProviderToken = <<>>
    /\ MesheryAPIBaseURL = <<>>
    /\ SnapshotEndpoint = <<>>
    /\ repoOwner = <<>>
    /\ repoName = <<>>
    /\ workflowID = <<>>
    /\ world = [started |-> FALSE]
    /\ mainVars = [started |-> FALSE]
    /\ flags \in { [started |-> FALSE, email |-> e] : e \in EmailTexts }
    /\ run = [started |-> FALSE]
    /\ steps = <<>>
    /\ exitCode = Running
    /\ outFile = NoFile
    /\ handles = <<>>

CallIsValidEmail ==
    /\ pc = "ready"
    /\ pc' = "returned"
    /\ call' = [op |-> "isValidEmail", args |-> [email |-> flags.email],
                resp |-> Response("none", "none", "none", 0, <<>>)]
    /\ ret' = [kind |-> "return", ok |-> isValidEmail(flags.email)]
    /\ UNCHANGED <<handles, now, net, logs, fs, globals, world, mainVars, flags, run, steps,
                   exitCode, outFile>>

NextEmail == CallIsValidEmail

SpecEmail == InitEmail /\ [][NextEmail]_vars

EmailChecked == pc = "returned" /\ call.op = "isValidEmail"

\* C24: isValidEmail returns true for user@example.com and false for
\* not-an-email and for the empty string; in general it returns true
\* exactly for the texts local@domain.tld made of the characters the
\* pattern allows, with a top-level name of two letters or more.
C24_EmailPattern ==
    EmailChecked =>
        /\ ret.ok = WellFormedEmail(call.args.email)
        /\ call.args.email = <<"u","s","e","r","@","e","x","a","m","p","l","e",".","c","o","m">>
              => ret.ok
        /\ call.args.email = <<"n","o","t","-","a","n","-","e","m","a","i","l">> => ~ret.ok
        /\ call.args.email = <<>> => ~ret.ok

\* user@example.com is accepted
C24_Witness ==
    /\ EmailChecked
    /\ call.args.email = <<"u","s","e","r","@","e","x","a","m","p","l","e",".","c","o","m">>
    /\ ret.ok

\* a digit may stand in the domain: a@1.aa is accepted
C24_WitnessDigits ==
    /\ EmailChecked
    /\ call.args.email = <<"a","@","1",".","a","a">>
    /\ ret.ok

\* but not in the top-level name: a@a.a1 is rejected
C24_WitnessTLD ==
    /\ EmailChecked
    /\ call.args.email = <<"a","@","a",".","a","1">>
    /\ ~ret.ok

\* the empty text is rejected
C24_WitnessEmpty == EmailChecked /\ call.args.email = <<>> /\ ~ret.ok

(***************************************************************************)
(* The strict submitter: failures.                                         *)
(***************************************************************************)
Strict == pc # "ready" /\ call.op = "CreateMesheryDesignStrict"

\* the call returned no identifier and an error
ReturnedError == pc = "returned" /\ ret.kind = "return" /\ ret.id = <<>> /\ ret.err # NoError

\* the failures of a submission: the transport, an HTML body, a status
\* other than 200 and 201, a body that is not JSON, a JSON body that
\* carries no string identifier
SubmissionFailure ==
    \/ call.resp.do = "error"
    \/ call.resp.do = "ok" /\ call.resp.read = "error"
    \/ /\ ResponseRead
       /\ \/ HTMLBody
          \/ ~Status2xxCreated
          \/ call.resp.body.t = "invalid"
          \/ NoStringIdentifier(call.resp.body)

\* C26: the strict CreateMesheryDesign never synthesizes an offline
\* identifier: on a transport failure, an HTML body, a status other than
\* 200 and 201, an unparsable body, or a parsed body with no extractable
\* identifier it returns an empty identifier and a non-nil error (and the
\* run then ends with ErrCreatingMesheryDesign).
C26_StrictFails ==
    (Strict /\ SubmissionFailure) => ReturnedError

\* the decoded body is one on which the chain of part_002:272-283 does not
\* stop at the pattern_file assertion
PatternFileIsObject(body) ==
    body.t \notin {"object", "null"} \/ Lookup(body, KeyPatternFile).t = "object"

\* The part of C26 the code does keep: every failure but that of a decoded
\* object without identifier whose pattern_file is not an object.
C26_StrictFailsUnlessPanic ==
    (/\ Strict
     /\ SubmissionFailure
     /\ \/ ~ResponseRead
        \/ HTMLBody
        \/ ~Status2xxCreated
        \/ PatternFileIsObject(call.resp.body))
    => ReturnedError /\ ~StartsWithOfflineMode(ret.id)

C26_StrictFailsWitness ==
    /\ Strict
    /\ ResponseRead
    /\ call.resp.status = 500
    /\ ReturnedError

(***************************************************************************)
(* The run of the command: after a degraded submission.                    *)
(***************************************************************************)
\* the submission returned an "offline-mode-" identifier and no error
SubmissionDegraded == SubmissionSucceeded /\ StartsWithOfflineMode(run.designID)

\* C27: in every run of the lenient pipeline in which the submission
\* degraded to an offline identifier, whatever the design name (with
\* spaces, or empty), no workflow-dispatch POST and no download GET is
\* issued afterwards: GenerateSnapshot and DownloadPatternAsImage both
\* take the synthesized identifier for an offline one.
C27_NothingSentAfterDegrading ==
    SubmissionDegraded =>
        /\ DispatchPOSTs = {}
        /\ DownloadGETs = {}
        /\ Len(net) <= 1
        /\ (pc = "exited" /\ AfterSubmission = <<"GenerateSnapshot">>) =>
              (ret.err = NoError /\ exitCode = ExitOK)

\* a run named "my app", with a GitHub token, degraded and called
\* GenerateSnapshot, which sent nothing
C27_Witness ==
    /\ SubmissionDegraded
    /\ pc = "exited"
    /\ flags.designName = <<"m","y"," ","a","p","p">>
    /\ flags.WorkflowAccessToken # <<>>
    /\ AfterSubmission = <<"GenerateSnapshot">>
    /\ DispatchPOSTs = {}

\* a run with -d and -t degraded and called DownloadPatternAsImage, which
\* sent nothing
C27_WitnessDownload ==
    /\ SubmissionDegraded
    /\ pc = "exited"
    /\ ProviderToken # <<>>
    /\ AfterSubmission = <<"DownloadPatternAsImage">>
    /\ DownloadGETs = {}
    /\ Len(net) = 1

(***************************************************************************)
(* The run of the command: the report of the trigger.                      *)
(***************************************************************************)
TriggerReported == Logged("GitHub workflow has been triggered to generate a snapshot.")

\* C28: the run reports "GitHub workflow has been triggered to generate a
\* snapshot" only when a workflow-dispatch POST was issued and answered
\* with 200 or 204; when GenerateSnapshot was a no-op (offline identifier
\* or empty access token) no such report is made.
C28_ReportOnlyAfterDispatch ==
    (world.started /\ TriggerReported) =>
        /\ call.op = "GenerateSnapshot"
        /\ Cardinality(DispatchPOSTs) = 1
        /\ call.resp.do = "ok"
        /\ call.resp.status \in {200, 204}

(***************************************************************************)
(* The dispatch and the workflow it starts (.github/workflows/kanvas.yaml).*)
(***************************************************************************)
\* on.workflow_dispatch.inputs: the inputs declared with required: true
WorkflowRequiredInputs == {"designID", "assetLocation", "mesheryToken"}

\* C29: the workflow-dispatch request gives a value to every input that
\* kanvas.yaml declares as required: the inputs sent by GenerateSnapshot
\* hold designID, assetLocation and mesheryToken.
C29_RequiredInputsSent ==
    TriggerCalled =>
        \A i \in 1..Len(net) : WorkflowRequiredInputs \subseteq DOMAIN net[i].body.inputs

(***************************************************************************)
(* The run of the command: the repository of the dispatch.                 *)
(***************************************************************************)
\* the help of --repo-name (cmd.go:665): "defaults to meshery-extensions-packages"
DocumentedRepoName ==
    <<"m","e","s","h","e","r","y","-","e","x","t","e","n","s","i","o","n","s","-",
      "p","a","c","k","a","g","e","s">>

\* the run dispatched the workflow and printed the instructions, which name
\* repoOwner, repoName and workflowID as they are at the end of the run
InstructionsShown ==
    /\ world.started
    /\ pc = "exited"
    /\ Logged("To access the snapshot images:")
    /\ DispatchPOSTs # {}

\* C30: when --repo-owner, --repo-name and --workflow are not given, the
\* repository and workflow the dispatch POST is sent to are the ones named
\* in the final "To access the snapshot images" instructions, and the
\* repository name is the default documented in the help of --repo-name.
C30_DispatchMatchesInstructions ==
    (/\ InstructionsShown
     /\ world.args.repoOwner = <<>>
     /\ world.args.repoName = <<>>
     /\ world.args.workflow = <<>>)
    => /\ \A i \in DispatchPOSTs :
             net[i].url =
                <<"h","t","t","p","s",":","/","/","a","p","i",".","g","i","t","h","u","b",".",
                  "c","o","m","/","r","e","p","o","s","/">>
                \o repoOwner \o <<"/">> \o repoName
                \o <<"/","a","c","t","i","o","n","s","/","w","o","r","k","f","l","o","w","s","/">>
                \o workflowID \o <<"/","d","i","s","p","a","t","c","h","e","s">>
       /\ repoName = DocumentedRepoName

====
